---- MODULE Spec2Model ----
(***************************************************************************)
(* Timesheet vs payroll reconciliation (Esker Lodge).                      *)
(*                                                                         *)
(* The model follows src/timesheet_payroll_comparison_detailed.py: main()  *)
(* loads the master timesheet CSV and the payroll export, compares hours   *)
(* per Employee_ID, builds the reports and categorizes the employees.      *)
(*                                                                         *)
(* Conventions                                                             *)
(*   - a text cell is a sequence of one-character strings, so that parsing *)
(*     and string comparison are computed character by character;         *)
(*   - NaN is the cell pandas yields for a blank field or a missing join   *)
(*     side;                                                               *)
(*   - every number is held in hundredths (8.5 hours is 850, employee id   *)
(*     101 is 10100): the code's floats carry at most two decimals on the  *)
(*     inputs drawn here.                                                  *)
(***************************************************************************)
EXTENDS Integers, Sequences, FiniteSets, TLC

VARIABLES
    csv_columns,         \* header of the master timesheet CSV
    csv_rows,            \* rows of the master timesheet CSV (raw text cells)
    excel_file,          \* name of the payroll workbook
    xls_columns,         \* header row of the payroll sheet
    xls_rows,            \* rows of the payroll sheet (raw text cells per header)
    tolerance,           \* tolerance argument, in hundredths of an hour
    pc,                  \* position of main()
    timesheet_df,        \* result of load_and_clean_timesheet_data
    payroll_df,          \* result of load_and_clean_payroll_data_detailed
    hour_categories,     \* dict category label -> payroll column, in insertion order
    comparison_df,       \* result of compare_hours_detailed
    comparison_report,   \* renamed, sorted comparison table
    anomalies,           \* rows of the report that are mismatches in both systems
    dept_summary,        \* per-department re-aggregation
    category_breakdown,  \* long-format (employee, category, hours) rows
    stats,               \* statistics record
    employee_categories, \* result of categorize_employees_by_activity
    category_summary,    \* per-category re-aggregation of employee_categories
    enhanced_stats,      \* stats with the period fields and the category counts
    comparison_metrics,  \* data_alignment and employee_status
    output_file,         \* what save_detailed_results returned, "" before it ran
    workbook             \* sheets of the results workbook written

inputs == <<csv_columns, csv_rows, excel_file, xls_columns, xls_rows, tolerance>>

vars == <<csv_columns, csv_rows, excel_file, xls_columns, xls_rows, tolerance, pc,
          timesheet_df, payroll_df, hour_categories, comparison_df, comparison_report,
          anomalies, dept_summary, category_breakdown, stats, employee_categories,
          category_summary, enhanced_stats, comparison_metrics, output_file, workbook>>

-----------------------------------------------------------------------------
(* Text cells                                                              *)

NaN == <<"<NaN>">>

isna(x) == x = NaN

\* pandas.read_csv / read_excel: a blank field is read as NaN.
ReadCell(c) == IF c = <<>> THEN NaN ELSE c

IsDigit(c) == c \in {"0", "1", "2", "3", "4", "5", "6", "7", "8", "9"}

DigitVal(c) ==
    CASE c = "0" -> 0 [] c = "1" -> 1 [] c = "2" -> 2 [] c = "3" -> 3
      [] c = "4" -> 4 [] c = "5" -> 5 [] c = "6" -> 6 [] c = "7" -> 7
      [] c = "8" -> 8 [] c = "9" -> 9

AllDigits(s) == Len(s) > 0 /\ \A i \in 1..Len(s) : IsDigit(s[i])

RECURSIVE NatOf(_)
NatOf(s) == IF s = <<>> THEN 0
            ELSE 10 * NatOf(SubSeq(s, 1, Len(s) - 1)) + DigitVal(s[Len(s)])

\* str.strip(): leading and trailing blanks removed.
RECURSIVE LStrip(_)
LStrip(s) == IF s # <<>> /\ Head(s) = " " THEN LStrip(Tail(s)) ELSE s

RECURSIVE RStrip(_)
RStrip(s) == IF s # <<>> /\ s[Len(s)] = " " THEN RStrip(SubSeq(s, 1, Len(s) - 1)) ELSE s

Strip(s) == RStrip(LStrip(s))

\* Index of the first occurrence of character c in s, 0 when absent.
Find(s, c) == IF \E i \in 1..Len(s) : s[i] = c
              THEN CHOOSE i \in 1..Len(s) : s[i] = c /\ \A j \in 1..(i - 1) : s[j] # c
              ELSE 0

Contains(s, c) == Find(s, c) # 0

\* s.split(c)[0] and s.split(c)[1], for a text that contains c.
SplitFirst(s, c) == SubSeq(s, 1, Find(s, c) - 1)

SplitSecond(s, c) ==
    LET rest == SubSeq(s, Find(s, c) + 1, Len(s))
    IN  IF Contains(rest, c) THEN SplitFirst(rest, c) ELSE rest

\* A parse result is <<>> (the parse raised) or <<v>>.
Unsigned(s) == IF s # <<>> /\ Head(s) \in {"-", "+"} THEN Tail(s) ELSE s

Sign(s) == IF s # <<>> /\ Head(s) = "-" THEN -1 ELSE 1

\* int(text): optional blanks, optional sign, decimal digits.
PyInt(s) ==
    LET t == Strip(s)
    IN  IF AllDigits(Unsigned(t)) THEN << Sign(t) * NatOf(Unsigned(t)) >> ELSE <<>>

\* float(text) / pd.to_numeric(text), in hundredths: optional sign, digits and
\* an optional fraction of at most two digits (the texts drawn never carry more).
PyFloat(s) ==
    LET t    == Strip(s)
        u    == Unsigned(t)
        dot  == Find(u, ".")
        ip   == IF dot = 0 THEN u ELSE SubSeq(u, 1, dot - 1)
        fp   == IF dot = 0 THEN <<>> ELSE SubSeq(u, dot + 1, Len(u))
        okI  == ip = <<>> \/ AllDigits(ip)
        okF  == fp = <<>> \/ (AllDigits(fp) /\ Len(fp) <= 2)
        frac == IF Len(fp) = 1 THEN 10 * NatOf(fp) ELSE NatOf(fp)
    IN  IF okI /\ okF /\ (ip # <<>> \/ fp # <<>>)
        THEN << Sign(t) * (100 * NatOf(ip) + frac) >>
        ELSE <<>>

\* pd.to_numeric(cell, errors='coerce'): NaN (here <<>>) when not a number.
ToNumeric(cell) == IF isna(cell) THEN <<>> ELSE PyFloat(cell)

-----------------------------------------------------------------------------
(* clean_name                                                              *)

LowerLetters == <<"a", "b", "c", "d", "e", "f", "g", "h", "i", "j", "k", "l", "m",
                  "n", "o", "p", "q", "r", "s", "t", "u", "v", "w", "x", "y", "z">>

UpperLetters == <<"A", "B", "C", "D", "E", "F", "G", "H", "I", "J", "K", "L", "M",
                  "N", "O", "P", "Q", "R", "S", "T", "U", "V", "W", "X", "Y", "Z">>

IsLower(c) == \E i \in 1..Len(LowerLetters) : LowerLetters[i] = c

IsUpper(c) == \E i \in 1..Len(UpperLetters) : UpperLetters[i] = c

IsAlpha(c) == IsLower(c) \/ IsUpper(c)

ToUpper(c) == IF IsLower(c)
              THEN UpperLetters[CHOOSE i \in 1..Len(LowerLetters) : LowerLetters[i] = c]
              ELSE c

ToLower(c) == IF IsUpper(c)
              THEN LowerLetters[CHOOSE i \in 1..Len(UpperLetters) : UpperLetters[i] = c]
              ELSE c

\* str.title(): a letter is upper-cased when it follows a non-letter, lower-cased otherwise.
Title(s) ==
    [i \in 1..Len(s) |->
        IF ~IsAlpha(s[i]) THEN s[i]
        ELSE IF i = 1 \/ ~IsAlpha(s[i - 1]) THEN ToUpper(s[i]) ELSE ToLower(s[i])]

\* re.sub(r'\s+', ' ', name): every run of blanks becomes one blank.
RECURSIVE CollapseBlanks(_)
CollapseBlanks(s) ==
    IF Len(s) < 2 THEN s
    ELSE IF s[1] = " " /\ s[2] = " " THEN CollapseBlanks(Tail(s))
    ELSE <<Head(s)>> \o CollapseBlanks(Tail(s))

\* name.replace("Mc ", "Mc"); the second replace, "O'" by "O'", changes nothing.
RECURSIVE ReplaceMc(_)
ReplaceMc(s) ==
    IF s = <<>> THEN <<>>
    ELSE IF Len(s) >= 3 /\ s[1] = "M" /\ s[2] = "c" /\ s[3] = " "
         THEN <<"M", "c">> \o ReplaceMc(SubSeq(s, 4, Len(s)))
         ELSE <<Head(s)>> \o ReplaceMc(Tail(s))

clean_name(name) ==
    IF isna(name) \/ name = <<>> THEN <<>>
    ELSE ReplaceMc(Title(CollapseBlanks(Strip(name))))

-----------------------------------------------------------------------------
(* load_and_clean_timesheet_data                                           *)

\* Variant: the minutes truncated to hundredths of an hour instead of rounded.
MinutesToHundredths_Truncated(m) == (100 * m) \div 60

\* round(100 * minutes / 60): 5m/3 is never half-way between two integers.
MinutesToHundredths(m) == (10 * m + 3) \div 6

convert_time_to_hours(time_str) ==
    IF isna(time_str) \/ time_str = <<>> \/ time_str = <<"0", "0", ":", "0", "0">>
    THEN 0
    ELSE LET s == Strip(time_str)
         IN  IF Contains(s, ":")
             THEN LET hours   == PyInt(SplitFirst(s, ":"))
                      minutes == PyInt(SplitSecond(s, ":"))
                  IN  IF hours = <<>> \/ minutes = <<>> THEN 0
                      ELSE 100 * hours[1] + MinutesToHundredths(minutes[1])
             ELSE LET f == PyFloat(s)
                  IN  IF f = <<>> THEN 0 ELSE f[1]

\* One CSV row after read_csv and the three derived columns.
TimesheetRecord(r) ==
    [ Employee_ID    |-> ToNumeric(ReadCell(r.StaffNumber)),
      Name           |-> ReadCell(r.Name),
      Name_Cleaned   |-> clean_name(ReadCell(r.Name)),
      DepartmentName |-> ReadCell(r.DepartmentName),
      TotalHours     |-> convert_time_to_hours(ReadCell(r.TotalHours)),
      YearWeek       |-> ReadCell(r.YearWeek) ]

\* Variant: only the dropna, without the filter Employee_ID > 0.
ValidEmployeeId_NotNull(id) == id # <<>>

\* dropna(subset=['Employee_ID']) and df[df['Employee_ID'] > 0].
ValidEmployeeId(id) == id # <<>> /\ id[1] > 0

load_and_clean_timesheet_data(rows) ==
    LET parsed == [i \in 1..Len(rows) |-> TimesheetRecord(rows[i])]
        kept   == SelectSeq(parsed, LAMBDA r : ValidEmployeeId(r.Employee_ID))
    IN  [i \in 1..Len(kept) |-> [kept[i] EXCEPT !.Employee_ID = kept[i].Employee_ID[1]]]

-----------------------------------------------------------------------------
(* load_and_clean_payroll_data_detailed                                    *)

Range(f) == {f[x] : x \in DOMAIN f}

RECURSIVE SumOver(_, _)
SumOver(f, S) == IF S = {} THEN 0
                 ELSE LET x == CHOOSE y \in S : TRUE IN f[x] + SumOver(f, S \ {x})

\* 'Gross' in col_str, over the headers of the payroll export.
IsGrossColumn(col) == col \in {"Basic Gross", "Night Rate Gross", "Total Gross"}

InfoColumns == {"Depart", "Sequence", "Forename", "Surname"}

\* The if/elif chain from header to category label; "" when no branch matches.
HourCategoryOf(col) ==
    CASE col = "Basic"                      -> "Basic Hours"
      [] col = "Night Rate"                 -> "Night Rate Hours"
      [] col = "Saturday Rate"              -> "Saturday Day Hours"
      [] col = "Saturday Night Rate"        -> "Saturday Night Hours"
      [] col = "Sunday Rate"                -> "Sunday Day Hours"
      [] col = "Sunday Night Rate"          -> "Sunday Night Hours"
      [] col = "Old Day/Sat Rate"           -> "Old Day/Saturday Rate Hours"
      [] col = "Old Night Rate"             -> "Old Night Rate Hours"
      [] col = "Old Sun Rate"               -> "Old Sunday Rate Hours"
      [] col = "Non-Rostered Day"           -> "Non-Rostered Day Hours"
      [] col = "Backpay"                    -> "Backpay Hours"
      [] col = "Public Holiday Entitlement" -> "Public Holiday Hours"
      [] col = "Holidays"                   -> "Holiday Hours"
      [] col = "Cross Function Day1"        -> "Cross Function Day1 Hours"
      [] col = "Cross Function Day2"        -> "Cross Function Day2 Hours"
      [] col = "Cross Function Sun1"        -> "Cross Function Sun1 Hours"
      [] col = "Training/Meetings"          -> "Training/Meeting Hours"
      [] col = "Statutory Sick"             -> "Statutory Sick Pay Hours"
      [] OTHER                              -> ""

\* Variant: every column that is neither gross pay nor employee information is
\* taken as an hour category, outside the vocabulary under its own header.
MapHourCategories_AllButInfo(columns) ==
    LET mapped == SelectSeq(columns, LAMBDA c : ~IsGrossColumn(c) /\ c \notin InfoColumns)
    IN  [i \in 1..Len(mapped) |->
            [category |-> IF HourCategoryOf(mapped[i]) # "" THEN HourCategoryOf(mapped[i])
                          ELSE mapped[i],
             col      |-> mapped[i]]]

\* hour_categories: the dict category label -> column, in insertion order
\* (the order of the sheet's columns), as a sequence of entries.
MapHourCategories(columns) ==
    LET mapped == SelectSeq(columns, LAMBDA c :
                      ~IsGrossColumn(c) /\ c \notin InfoColumns /\ HourCategoryOf(c) # "")
    IN  [i \in 1..Len(mapped) |-> [category |-> HourCategoryOf(mapped[i]), col |-> mapped[i]]]

\* list(hour_categories.values())
HourCols(hc) == {hc[i].col : i \in DOMAIN hc}

\* astype(str) of a name cell: NaN becomes the text 'nan'.
AsStr(cell) == IF isna(cell) THEN <<"n", "a", "n">> ELSE cell

\* pd.to_numeric(df[col], errors='coerce').fillna(0)
HourCell(cell) == LET v == ToNumeric(cell) IN IF v = <<>> THEN 0 ELSE v[1]

\* Variant: the total taken from the Basic column alone.
TotalPayrollHours_BasicOnly(hours, hour_cols) ==
    IF "Basic" \in hour_cols THEN hours["Basic"] ELSE 0

\* df[existing_hour_cols].sum(axis=1), or 0 when no hour column was mapped.
TotalPayrollHours(hours, hour_cols) == IF hour_cols # {} THEN SumOver(hours, hour_cols) ELSE 0

PayrollRecord(r, hour_cols) ==
    LET hours == [c \in hour_cols |-> HourCell(ReadCell(r[c]))]
    IN  [ Employee_ID         |-> ToNumeric(ReadCell(r["Sequence"])),
          Name_Cleaned        |-> clean_name(AsStr(ReadCell(r["Forename"])) \o <<" ">>
                                             \o AsStr(ReadCell(r["Surname"]))),
          Depart              |-> ReadCell(r["Depart"]),
          Hours               |-> hours,
          Total_Payroll_Hours |-> TotalPayrollHours(hours, hour_cols) ]

NanNan == <<"N", "a", "n", " ", "N", "a", "n">>

load_and_clean_payroll_data_detailed(columns, rows) ==
    LET hour_cols == HourCols(MapHourCategories(columns))
        parsed    == [i \in 1..Len(rows) |-> PayrollRecord(rows[i], hour_cols)]
        kept      == SelectSeq(parsed, LAMBDA r :
                         ValidEmployeeId(r.Employee_ID) /\ r.Name_Cleaned # NanNan)
    IN  [i \in 1..Len(kept) |-> [kept[i] EXCEPT !.Employee_ID = kept[i].Employee_ID[1]]]

-----------------------------------------------------------------------------
(* compare_hours_detailed                                                  *)

RECURSIVE SumSeq(_)
SumSeq(q) == IF q = <<>> THEN 0 ELSE Head(q) + SumSeq(Tail(q))

\* The elements of a finite set of numbers in ascending order.
RECURSIVE SortedSeq(_)
SortedSeq(S) == IF S = {} THEN <<>>
                ELSE LET m == CHOOSE x \in S : \A y \in S : x <= y
                     IN  <<m>> \o SortedSeq(S \ {m})

Abs(x) == IF x < 0 THEN -x ELSE x

EmployeeIds(df) == {df[i].Employee_ID : i \in DOMAIN df}

\* Variant: the group of the records that carry the name of the first record
\* with this id, a grouping by Name_Cleaned.
GroupOf_ByName(df, id) ==
    LET with_id == SelectSeq(df, LAMBDA r : r.Employee_ID = id)
    IN  IF with_id = <<>> THEN <<>>
        ELSE SelectSeq(df, LAMBDA r : r.Name_Cleaned = with_id[1].Name_Cleaned)

GroupOf(df, id) == SelectSeq(df, LAMBDA r : r.Employee_ID = id)

\* groupby(...).agg('first'): the first value of the group that is not NaN.
FirstNonNull(cells) ==
    LET nn == SelectSeq(cells, LAMBDA c : ~isna(c))
    IN  IF nn = <<>> THEN NaN ELSE Head(nn)

\* Series.fillna for text cells.
FillNa(cell, other) == IF isna(cell) THEN other ELSE cell

UnknownEmployee == <<"U", "n", "k", "n", "o", "w", "n", " ",
                     "E", "m", "p", "l", "o", "y", "e", "e">>

\* Variant: Total Hours aggregated with 'first' instead of 'sum'.
TimesheetTotal_First(ts_df, id) ==
    LET g == GroupOf(ts_df, id)
    IN  [ TotalHours     |-> IF g = <<>> THEN 0 ELSE g[1].TotalHours,
          DepartmentName |-> FirstNonNull([i \in 1..Len(g) |-> g[i].DepartmentName]),
          Name_Cleaned   |-> FirstNonNull([i \in 1..Len(g) |-> g[i].Name_Cleaned]) ]

\* timesheet_df.groupby('Employee_ID').agg(sum, first, first) for one key.
TimesheetTotal(ts_df, id) ==
    LET g == GroupOf(ts_df, id)
    IN  [ TotalHours     |-> SumSeq([i \in 1..Len(g) |-> g[i].TotalHours]),
          DepartmentName |-> FirstNonNull([i \in 1..Len(g) |-> g[i].DepartmentName]),
          Name_Cleaned   |-> FirstNonNull([i \in 1..Len(g) |-> g[i].Name_Cleaned]) ]

\* payroll_df.groupby('Employee_ID').agg(payroll_agg_data) for one key.
PayrollAgg(pay_df, hour_cols, id) ==
    LET g == GroupOf(pay_df, id)
    IN  [ Total_Payroll_Hours |-> SumSeq([i \in 1..Len(g) |-> g[i].Total_Payroll_Hours]),
          Depart              |-> FirstNonNull([i \in 1..Len(g) |-> g[i].Depart]),
          Name_Cleaned        |-> FirstNonNull([i \in 1..Len(g) |-> g[i].Name_Cleaned]),
          Hours               |-> [c \in hour_cols |->
                                      SumSeq([i \in 1..Len(g) |-> g[i].Hours[c]])] ]

\* Variant: the difference taken the other way round.
TotalDifference_Reversed(payroll_hours, timesheet_hours) == timesheet_hours - payroll_hours

\* Total_Payroll_Hours - Total Hours
TotalDifference(payroll_hours, timesheet_hours) == payroll_hours - timesheet_hours

\* Variant: an inclusive threshold.
IsMismatch_Inclusive(abs_difference, tol) == abs_difference >= tol

\* Abs_Total_Difference > tolerance
IsMismatch(abs_difference, tol) == abs_difference > tol

\* Variant: a total of zero counts as data.
HasData_NonNegative(total) == total >= 0

\* comparison['Total Hours'] > 0 and comparison['Total_Payroll_Hours'] > 0
HasData(total) == total > 0

\* One row of the outer merge on Employee_ID with its derived columns. A side
\* that has no group for the key is NaN and is filled with 0 (hours, category
\* columns) or with the other side's value (name, department).
ComparisonRow(ts_df, pay_df, hour_cols, tol, id) ==
    LET in_ts   == id \in EmployeeIds(ts_df)
        in_pay  == id \in EmployeeIds(pay_df)
        t       == TimesheetTotal(ts_df, id)
        p       == PayrollAgg(pay_df, hour_cols, id)
        th      == IF in_ts THEN t.TotalHours ELSE 0
        ph      == IF in_pay THEN p.Total_Payroll_Hours ELSE 0
        name_x  == IF in_ts THEN t.Name_Cleaned ELSE NaN
        name_y  == IF in_pay THEN p.Name_Cleaned ELSE NaN
        dept_x  == IF in_ts THEN t.DepartmentName ELSE NaN
        dept_y  == IF in_pay THEN p.Depart ELSE NaN
        diff    == TotalDifference(ph, th)
    IN  [ Employee_ID          |-> id,
          TotalHours           |-> th,
          Total_Payroll_Hours  |-> ph,
          Hours                |-> [c \in hour_cols |-> IF in_pay THEN p.Hours[c] ELSE 0],
          Employee_Name        |-> FillNa(FillNa(name_x, name_y), UnknownEmployee),
          Total_Difference     |-> diff,
          Abs_Total_Difference |-> Abs(diff),
          Mismatch             |-> IsMismatch(Abs(diff), tol),
          Department           |-> FillNa(dept_x, dept_y),
          In_Timesheet         |-> HasData(th),
          In_Payroll           |-> HasData(ph),
          In_Both              |-> HasData(th) /\ HasData(ph) ]

\* Variant: an inner merge, the keys both sides hold.
MergeKeys_Inner(ts_df, pay_df) == SortedSeq(EmployeeIds(ts_df) \cap EmployeeIds(pay_df))

\* The keys of the outer merge: pandas sorts the union of both key sets.
MergeKeys(ts_df, pay_df) == SortedSeq(EmployeeIds(ts_df) \cup EmployeeIds(pay_df))

compare_hours_detailed(ts_df, pay_df, hc, tol) ==
    LET keys == MergeKeys(ts_df, pay_df)
    IN  [i \in 1..Len(keys) |-> ComparisonRow(ts_df, pay_df, HourCols(hc), tol, keys[i])]

-----------------------------------------------------------------------------
(* generate_detailed_reports                                               *)

\* comparison_df[available_columns].rename(columns=column_rename) for one row.
ReportRow(r, hc) ==
    [ EmployeeID        |-> r.Employee_ID,
      EmployeeName      |-> r.Employee_Name,
      Department        |-> r.Department,
      TimesheetHours    |-> r.TotalHours,
      PayrollHoursTotal |-> r.Total_Payroll_Hours,
      TotalDifference   |-> r.Total_Difference,
      MismatchFlag      |-> r.Mismatch,
      HasTimesheetData  |-> r.In_Timesheet,
      HasPayrollData    |-> r.In_Payroll,
      InBothSystems     |-> r.In_Both,
      CategoryHours     |-> [i \in DOMAIN hc |-> r.Hours[hc[i].col]] ]

RowOrders(n) == {p \in [1..n -> 1..n] : \A i, j \in 1..n : i # j => p[i] # p[j]}

\* sort_values('Total Difference', key=abs, ascending=False): every order of
\* the rows in which the absolute difference never increases (the order of
\* rows with equal keys is not fixed by the sort).
SortedByAbsDifference(rows) ==
    {[i \in 1..Len(rows) |-> rows[p[i]]] : p \in
        {q \in RowOrders(Len(rows)) :
            \A i \in 1..(Len(rows) - 1) :
                Abs(rows[q[i]].TotalDifference) >= Abs(rows[q[i + 1]].TotalDifference)}}

\* Variant: every row with Mismatch Flag, in both systems or not.
IsAnomaly_AnyMismatch(r) == r.MismatchFlag = TRUE

\* Rows with Mismatch Flag and In Both Systems.
IsAnomaly(r) == r.MismatchFlag = TRUE /\ r.InBothSystems = TRUE

\* Series.unique(): the distinct values in order of first appearance.
RECURSIVE Unique(_)
Unique(q) ==
    IF q = <<>> THEN <<>>
    ELSE LET front == SubSeq(q, 1, Len(q) - 1)
             last  == q[Len(q)]
         IN  IF \E i \in 1..Len(front) : front[i] = last
             THEN Unique(front) ELSE Unique(front) \o <<last>>

\* Variant: Total Difference as the sum of the absolute differences.
DeptSummaryRow_AbsDifference(report, hc, dept) ==
    LET d == SelectSeq(report, LAMBDA r : r.Department = dept)
    IN  [ Department              |-> dept,
          EmployeeCount           |-> Len(d),
          EmployeesInBothSystems  |-> Len(SelectSeq(d, LAMBDA r : r.InBothSystems = TRUE)),
          TotalTimesheetHours     |-> SumSeq([i \in 1..Len(d) |-> d[i].TimesheetHours]),
          TotalPayrollHours       |-> SumSeq([i \in 1..Len(d) |-> d[i].PayrollHoursTotal]),
          TotalDifference         |-> SumSeq([i \in 1..Len(d) |-> Abs(d[i].TotalDifference)]),
          EmployeesWithMismatches |-> Len(SelectSeq(d, LAMBDA r : r.MismatchFlag = TRUE)),
          CategoryTotals          |-> [k \in DOMAIN hc |->
                                          SumSeq([i \in 1..Len(d) |-> d[i].CategoryHours[k]])] ]

\* One summary row per department: the rows of the report with that
\* Department, counted and summed.

DeptSummaryRow(report, hc, dept) ==
    LET d == SelectSeq(report, LAMBDA r : r.Department = dept)
    IN  [ Department              |-> dept,
          EmployeeCount           |-> Len(d),
          EmployeesInBothSystems  |-> Len(SelectSeq(d, LAMBDA r : r.InBothSystems = TRUE)),
          TotalTimesheetHours     |-> SumSeq([i \in 1..Len(d) |-> d[i].TimesheetHours]),
          TotalPayrollHours       |-> SumSeq([i \in 1..Len(d) |-> d[i].PayrollHoursTotal]),
          TotalDifference         |-> SumSeq([i \in 1..Len(d) |-> d[i].TotalDifference]),
          EmployeesWithMismatches |-> Len(SelectSeq(d, LAMBDA r : r.MismatchFlag = TRUE)),
          CategoryTotals          |-> [k \in DOMAIN hc |->
                                          SumSeq([i \in 1..Len(d) |-> d[i].CategoryHours[k]])] ]

\* Variant: without the test pd.isna(dept), a row for the null department too.
DeptSummary_WithNull(report, hc) ==
    LET depts == Unique([i \in 1..Len(report) |-> report[i].Department])
    IN  [i \in 1..Len(depts) |->
            LET d == SelectSeq(report, LAMBDA r : r.Department = depts[i])
            IN  [ Department              |-> depts[i],
                  EmployeeCount           |-> Len(d),
                  EmployeesInBothSystems  |->
                      Len(SelectSeq(d, LAMBDA r : r.InBothSystems = TRUE)),
                  TotalTimesheetHours     |->
                      SumSeq([k \in 1..Len(d) |-> d[k].TimesheetHours]),
                  TotalPayrollHours       |->
                      SumSeq([k \in 1..Len(d) |-> d[k].PayrollHoursTotal]),
                  TotalDifference         |->
                      SumSeq([k \in 1..Len(d) |-> d[k].TotalDifference]),
                  EmployeesWithMismatches |->
                      Len(SelectSeq(d, LAMBDA r : r.MismatchFlag = TRUE)),
                  CategoryTotals          |->
                      [k \in DOMAIN hc |->
                          SumSeq([j \in 1..Len(d) |-> d[j].CategoryHours[k]])] ]]

\* for dept in comparison_report['Department'].unique(), skipping NaN.

DeptSummary(report, hc) ==
    LET depts == SelectSeq(Unique([i \in 1..Len(report) |-> report[i].Department]),
                           LAMBDA d : ~isna(d))
    IN  [i \in 1..Len(depts) |-> DeptSummaryRow(report, hc, depts[i])]

\* One row per (report row, hour category); the empty table stands for None.
CategoryBreakdown(report, hc) ==
    [n \in 1..(Len(report) * Len(hc)) |->
        LET i == ((n - 1) \div Len(hc)) + 1
            k == ((n - 1) % Len(hc)) + 1
        IN  [ EmployeeID     |-> report[i].EmployeeID,
              EmployeeName   |-> report[i].EmployeeName,
              Department     |-> report[i].Department,
              HourCategory   |-> hc[k].category,
              Hours          |-> report[i].CategoryHours[k],
              TimesheetHours |-> report[i].TimesheetHours ]]

\* Variant: the rate taken over the employees outside both systems.
CoverageRate_OverOthers(matched, total) ==
    IF total > matched THEN (matched * 10000) \div (total - matched) ELSE 0

\* coverage_rate is held in hundredths of a percent, rounded down.
CoverageRate(matched, total) == IF total > 0 THEN (matched * 10000) \div total ELSE 0

\* Variant: employees_timesheet_only counts every row with timesheet data.
Statistics_TimesheetOnlyAny(report, anoms, tol) ==
    LET matched == Len(SelectSeq(report, LAMBDA r : r.InBothSystems = TRUE))
    IN  [ total_employees           |-> Len(report),
          employees_in_both_systems |-> matched,
          employees_timesheet_only  |->
              Len(SelectSeq(report, LAMBDA r : r.HasTimesheetData)),
          employees_payroll_only    |->
              Len(SelectSeq(report, LAMBDA r : r.HasPayrollData /\ ~r.HasTimesheetData)),
          employees_with_mismatches |-> Len(anoms),
          total_timesheet_hours     |->
              SumSeq([i \in 1..Len(report) |-> report[i].TimesheetHours]),
          total_payroll_hours       |->
              SumSeq([i \in 1..Len(report) |-> report[i].PayrollHoursTotal]),
          total_difference          |->
              SumSeq([i \in 1..Len(report) |-> report[i].TotalDifference]),
          tolerance                 |-> tol,
          coverage_rate             |-> CoverageRate(matched, Len(report)) ]

\* The statistics record of generate_detailed_reports.

Statistics(report, anoms, tol) ==
    LET matched == Len(SelectSeq(report, LAMBDA r : r.InBothSystems = TRUE))
    IN  [ total_employees           |-> Len(report),
          employees_in_both_systems |-> matched,
          employees_timesheet_only  |->
              Len(SelectSeq(report, LAMBDA r : r.HasTimesheetData /\ ~r.HasPayrollData)),
          employees_payroll_only    |->
              Len(SelectSeq(report, LAMBDA r : r.HasPayrollData /\ ~r.HasTimesheetData)),
          employees_with_mismatches |-> Len(anoms),
          total_timesheet_hours     |->
              SumSeq([i \in 1..Len(report) |-> report[i].TimesheetHours]),
          total_payroll_hours       |->
              SumSeq([i \in 1..Len(report) |-> report[i].PayrollHoursTotal]),
          total_difference          |->
              SumSeq([i \in 1..Len(report) |-> report[i].TotalDifference]),
          tolerance                 |-> tol,
          coverage_rate             |-> CoverageRate(matched, Len(report)) ]

-----------------------------------------------------------------------------
(* categorize_employees_by_activity                                        *)

\* The characters of the texts drawn, in code-point order.
CodePointOrder ==
    <<" ", "'", ",", "-", ".", "0", "1", "2", "3", "4", "5", "6", "7", "8", "9", ":">>
    \o UpperLetters \o LowerLetters

Ord(c) == CHOOSE i \in 1..Len(CodePointOrder) : CodePointOrder[i] = c

\* Python's a < b on str: the first differing character decides, a proper
\* prefix is smaller.
RECURSIVE TextLess(_, _)
TextLess(a, b) ==
    IF b = <<>> THEN FALSE
    ELSE IF a = <<>> THEN TRUE
    ELSE IF Head(a) # Head(b) THEN Ord(Head(a)) < Ord(Head(b))
    ELSE TextLess(Tail(a), Tail(b))

TextGeq(a, b) == ~TextLess(a, b)

\* groupby min / max of a text column: NaN cells are skipped, NaN when none is left.
TextMin(cells) ==
    LET S == {cells[i] : i \in DOMAIN cells} \ {NaN}
    IN  IF S = {} THEN NaN ELSE CHOOSE x \in S : \A y \in S : ~TextLess(y, x)

TextMax(cells) ==
    LET S == {cells[i] : i \in DOMAIN cells} \ {NaN}
    IN  IF S = {} THEN NaN ELSE CHOOSE x \in S : \A y \in S : ~TextLess(x, y)

\* 'count' of Total Hours in a group: its rows (Total Hours is never NaN
\* once convert_time_to_hours has run).
WeekCount(g) == Len(g)

\* Variant: the lookup of the employee's activity data never matches.
TimesheetActivity_NoMatch(ts_df, id) == <<>>

\* timesheet_activity for one Employee_ID; <<>> when the key has no group.
TimesheetActivity(ts_df, id) ==
    LET g == GroupOf(ts_df, id)
    IN  IF g = <<>> THEN <<>>
        ELSE << [ Total_Hours_Sum |-> SumSeq([i \in 1..Len(g) |-> g[i].TotalHours]),
                  Week_Count      |-> WeekCount(g),
                  First_Week      |-> TextMin([i \in 1..Len(g) |-> g[i].YearWeek]),
                  Last_Week       |-> TextMax([i \in 1..Len(g) |-> g[i].YearWeek]) ] >>

ActiveWeeks == 10
ActiveHours == 10000
InactiveWeeks == 5
InactiveHours == 5000

\* '2025-W01'
CurrentYearStart == <<"2", "0", "2", "5", "-", "W", "0", "1">>

\* Variant: an exclusive boundary, first_week > '2025-W01'.
StartedThisYear_Exclusive(first_week) == TextLess(CurrentYearStart, first_week)

\* first_week >= '2025-W01'
StartedThisYear(first_week) == TextGeq(first_week, CurrentYearStart)

\* The in_both branch, for an employee with activity data.
ActivityLevel(week_count, total_hours) ==
    IF week_count >= ActiveWeeks /\ total_hours > ActiveHours THEN "Active"
    ELSE IF week_count < InactiveWeeks \/ total_hours < InactiveHours THEN "Inactive/Minimal"
    ELSE "Moderate Activity"

\* Variant: the last branch is a plain else, so every row that is neither in
\* both systems nor timesheet-only is 'Terminated/Payroll Only'.
CategoryOf_ElseTerminated(row, activity_data) ==
    IF row.InBothSystems
    THEN IF Len(activity_data) > 0
         THEN ActivityLevel(activity_data[1].Week_Count, activity_data[1].Total_Hours_Sum)
         ELSE "Inactive/No Timesheet"
    ELSE IF row.HasTimesheetData /\ ~row.HasPayrollData
    THEN IF Len(activity_data) > 0
         THEN IF StartedThisYear(activity_data[1].First_Week) THEN "New Employee"
              ELSE "Timesheet Only"
         ELSE "Timesheet Only"
    ELSE "Terminated/Payroll Only"

\* Variant: the category starts as 'Timesheet Only' instead of 'Unknown'.
CategoryOf_DefaultTimesheetOnly(row, activity_data) ==
    IF row.InBothSystems
    THEN IF Len(activity_data) > 0
         THEN ActivityLevel(activity_data[1].Week_Count, activity_data[1].Total_Hours_Sum)
         ELSE "Inactive/No Timesheet"
    ELSE IF row.HasTimesheetData /\ ~row.HasPayrollData
    THEN IF Len(activity_data) > 0
         THEN IF StartedThisYear(activity_data[1].First_Week) THEN "New Employee"
              ELSE "Timesheet Only"
         ELSE "Timesheet Only"
    ELSE IF row.HasPayrollData /\ ~row.HasTimesheetData
    THEN "Terminated/Payroll Only"
    ELSE "Timesheet Only"

\* The category chosen for one row of the comparison report.
CategoryOf(row, activity_data) ==
    IF row.InBothSystems
    THEN IF Len(activity_data) > 0
         THEN ActivityLevel(activity_data[1].Week_Count, activity_data[1].Total_Hours_Sum)
         ELSE "Inactive/No Timesheet"
    ELSE IF row.HasTimesheetData /\ ~row.HasPayrollData
    THEN IF Len(activity_data) > 0
         THEN IF StartedThisYear(activity_data[1].First_Week) THEN "New Employee"
              ELSE "Timesheet Only"
         ELSE "Timesheet Only"
    ELSE IF row.HasPayrollData /\ ~row.HasTimesheetData
    THEN "Terminated/Payroll Only"
    ELSE "Unknown"

CategorizedRow(row, ts_df) ==
    [ EmployeeID        |-> row.EmployeeID,
      EmployeeName      |-> row.EmployeeName,
      Category          |-> CategoryOf(row, TimesheetActivity(ts_df, row.EmployeeID)),
      TimesheetHours    |-> row.TimesheetHours,
      PayrollHoursTotal |-> row.PayrollHoursTotal,
      TotalDifference   |-> row.TotalDifference,
      Department        |-> row.Department ]

\* The comparison first_week >= '2025-W01' raises TypeError when first_week is
\* NaN (a timesheet-only employee none of whose rows has a YearWeek).
CategorizeRaises(report, ts_df) ==
    \E i \in DOMAIN report :
        /\ ~report[i].InBothSystems
        /\ report[i].HasTimesheetData /\ ~report[i].HasPayrollData
        /\ TimesheetActivity(ts_df, report[i].EmployeeID) # <<>>
        /\ isna(TimesheetActivity(ts_df, report[i].EmployeeID)[1].First_Week)

\* try: ... except Exception: return the empty table.
categorize_employees_by_activity(report, ts_df) ==
    IF CategorizeRaises(report, ts_df) THEN <<>>
    ELSE [i \in 1..Len(report) |-> CategorizedRow(report[i], ts_df)]

-----------------------------------------------------------------------------
(* extract_date_range_from_filename, generate_comparison_reports           *)

\* str.lower()
Lower(s) == [i \in 1..Len(s) |-> ToLower(s[i])]

\* pattern in text
IsSubstring(p, s) ==
    \/ p = <<>>
    \/ \E i \in 0..(Len(s) - Len(p)) : s[i + 1] = p[1] /\ SubSeq(s, i + 1, i + Len(p)) = p

\* The dict months, in insertion order.
Months ==
    << [abbr |-> <<"j", "a", "n">>, full |-> <<"J", "a", "n", "u", "a", "r", "y">>],
       [abbr |-> <<"f", "e", "b">>, full |-> <<"F", "e", "b", "r", "u", "a", "r", "y">>],
       [abbr |-> <<"m", "a", "r">>, full |-> <<"M", "a", "r", "c", "h">>],
       [abbr |-> <<"a", "p", "r">>, full |-> <<"A", "p", "r", "i", "l">>],
       [abbr |-> <<"m", "a", "y">>, full |-> <<"M", "a", "y">>],
       [abbr |-> <<"j", "u", "n">>, full |-> <<"J", "u", "n", "e">>],
       [abbr |-> <<"j", "u", "l">>, full |-> <<"J", "u", "l", "y">>],
       [abbr |-> <<"a", "u", "g">>, full |-> <<"A", "u", "g", "u", "s", "t">>],
       [abbr |-> <<"s", "e", "p">>, full |-> <<"S", "e", "p", "t", "e", "m", "b", "e", "r">>],
       [abbr |-> <<"o", "c", "t">>, full |-> <<"O", "c", "t", "o", "b", "e", "r">>],
       [abbr |-> <<"n", "o", "v">>, full |-> <<"N", "o", "v", "e", "m", "b", "e", "r">>],
       [abbr |-> <<"d", "e", "c">>, full |-> <<"D", "e", "c", "e", "m", "b", "e", "r">>] >>

ToText == <<" ", "t", "o", " ">>

\* re.search(r'\((\d+)\)', filename): the digits of the leftmost parenthesised
\* number, 'Unknown Year' when there is none.
YearInParentheses(filename) ==
    LET hits == {<<i, j>> \in (1..Len(filename)) \X (1..Len(filename)) :
                    /\ i + 1 < j
                    /\ filename[i] = "(" /\ filename[j] = ")"
                    /\ AllDigits(SubSeq(filename, i + 1, j - 1))}
    IN  IF hits = {} THEN <<"U", "n", "k", "n", "o", "w", "n", " ", "Y", "e", "a", "r">>
        ELSE LET h == CHOOSE x \in hits : \A y \in hits : x[1] <= y[1]
             IN  SubSeq(filename, h[1] + 1, h[2] - 1)

\* The places of ' to ' in a text: i when it fills the positions i+1..i+4.
ToPlaces(s) == {i \in 0..(Len(s) - Len(ToText)) :
                   s[i + 1] = " " /\ SubSeq(s, i + 1, i + Len(ToText)) = ToText}

\* f"{start} to {end}" in text: some ' to ' of the text has start right before
\* it and end right after it.
JoinedByTo(start, end, s, places) ==
    \E i \in places :
        /\ i >= Len(start)
        /\ i + Len(ToText) + Len(end) <= Len(s)
        /\ SubSeq(s, i - Len(start) + 1, i) = start
        /\ SubSeq(s, i + Len(ToText) + 1, i + Len(ToText) + Len(end)) = end

\* Variant: the name of the workbook itself is taken as the period.
extract_date_range_from_filename_Verbatim(filename) == filename

\* The nested loops over months return at the first (start, end) pair one of
\* whose two patterns occurs in the lower-cased name.
extract_date_range_from_filename(filename) ==
    LET filename_lower == Lower(filename)
        places == ToPlaces(filename_lower)
        hits == {x \in (1..Len(Months)) \X (1..Len(Months)) :
                    \/ JoinedByTo(Months[x[1]].abbr, Months[x[2]].abbr,
                                  filename_lower, places)
                    \/ JoinedByTo(Months[x[1]].full, Months[x[2]].full,
                                  filename_lower, places)}
    IN  IF hits # {}
        THEN LET h == CHOOSE x \in hits :
                          \A y \in hits : x[1] < y[1] \/ (x[1] = y[1] /\ x[2] <= y[2])
             IN  Months[h[1]].full \o ToText \o Months[h[2]].full
        ELSE IF IsSubstring(<<"j", "a", "n", " ", "t", "o", " ", "a", "p", "r">>, filename_lower)
        THEN <<"J", "a", "n", "u", "a", "r", "y", " ", "t", "o", " ", "A", "p", "r", "i", "l", " ">> \o YearInParentheses(filename)
        ELSE <<"D", "a", "t", "e", " ", "r", "a", "n", "g", "e", " ", "n", "o", "t", " ", "s", "p", "e", "c", "i", "f", "i", "e", "d">>

\* str() of a cell: 'nan' for NaN.
StrOf(cell) == IF isna(cell) THEN <<"n", "a", "n">> ELSE cell

\* f"{timesheet_df['YearWeek'].min()} to {timesheet_df['YearWeek'].max()}".
\* The outcomes are <<>> (the expression raised) or <<text>>. Without the
\* column the lookup raises KeyError. A column of texts gives its least and
\* greatest text, an empty or all-NaN column gives 'nan to nan'. On a column
\* that mixes texts and NaN, Series.min() either skips the NaN or raises
\* TypeError on comparing a text with a float, depending on the pandas build.
TimesheetPeriodOutcomes(columns, ts_df) ==
    LET cells == [i \in DOMAIN ts_df |-> ts_df[i].YearWeek]
        text  == StrOf(TextMin(cells)) \o ToText \o StrOf(TextMax(cells))
        mixed == /\ \E i \in DOMAIN cells : isna(cells[i])
                 /\ \E i \in DOMAIN cells : ~isna(cells[i])
    IN  IF "YearWeek" \notin columns THEN {<<>>}
        ELSE IF mixed THEN {<<>>, <<text>>}
        ELSE {<<text>>}

\* text.replace('W', 'Week ')
RECURSIVE ReplaceW(_)
ReplaceW(s) ==
    IF s = <<>> THEN <<>>
    ELSE IF Head(s) = "W" THEN <<"W", "e", "e", "k", " ">> \o ReplaceW(Tail(s))
    ELSE <<Head(s)>> \o ReplaceW(Tail(s))

\* The columns of the table categorize_employees_by_activity returns: the eight
\* named columns when it raised, the keys of the row dicts otherwise, and no
\* column at all for pd.DataFrame([]), when there was no row to categorize.
CategorizationColumnNames ==
    <<"Employee ID", "Employee Name", "Category", "Reason", "Timesheet Hours",
      "Payroll Hours Total", "Total Difference", "Department">>

\* Variant: the table returned on an error has no columns either.
CategorizationColumns_BareOnError(report, ts_df) ==
    IF CategorizeRaises(report, ts_df) \/ report = <<>> THEN <<>>
    ELSE CategorizationColumnNames

\* The columns of the table returned: those named in the except clause, the
\* keys of the row dicts, or none for pd.DataFrame([]).

CategorizationColumns(report, ts_df) ==
    IF CategorizeRaises(report, ts_df) THEN CategorizationColumnNames
    ELSE IF report = <<>> THEN <<>>
    ELSE CategorizationColumnNames

\* The categories in the order groupby('Category') sorts them.
CategoryOrder ==
    <<"Active", "Inactive/Minimal", "Inactive/No Timesheet", "Moderate Activity",
      "New Employee", "Terminated/Payroll Only", "Timesheet Only", "Unknown">>

\* employee_categories.groupby('Category').agg(count, sum, sum, sum)
CategorySummary(cats) ==
    LET present == SelectSeq(CategoryOrder,
                             LAMBDA c : \E i \in DOMAIN cats : cats[i].Category = c)
    IN  [k \in DOMAIN present |->
            LET g == SelectSeq(cats, LAMBDA r : r.Category = present[k])
            IN  [ Category            |-> present[k],
                  EmployeeCount       |-> Len(g),
                  TotalTimesheetHours |-> SumSeq([i \in DOMAIN g |-> g[i].TimesheetHours]),
                  TotalPayrollHours   |-> SumSeq([i \in DOMAIN g |-> g[i].PayrollHoursTotal]),
                  TotalDifference     |-> SumSeq([i \in DOMAIN g |-> g[i].TotalDifference]) ]]

\* Category.str.contains('Inactive|Minimal'), over the categories assigned.
ContainsInactiveOrMinimal(category) ==
    category \in {"Inactive/Minimal", "Inactive/No Timesheet"}

\* Category.str.contains('Terminated|Payroll Only'), over the categories assigned.
ContainsTerminatedOrPayrollOnly(category) == category = "Terminated/Payroll Only"

\* stats.copy() updated with the period fields and the category counts.
EnhancedStatistics(st, payroll_period, timesheet_period, cats) ==
    st @@ [ payroll_period       |-> payroll_period,
            timesheet_period     |-> timesheet_period,
            period_mismatch      |-> payroll_period # ReplaceW(timesheet_period),
            active_employees     |->
                Len(SelectSeq(cats, LAMBDA r : r.Category = "Active")),
            inactive_employees   |->
                Len(SelectSeq(cats, LAMBDA r : ContainsInactiveOrMinimal(r.Category))),
            new_employees        |->
                Len(SelectSeq(cats, LAMBDA r : r.Category = "New Employee")),
            terminated_employees |->
                Len(SelectSeq(cats, LAMBDA r : ContainsTerminatedOrPayrollOnly(r.Category))) ]

ComparisonMetrics(es) ==
    [ data_alignment  |-> [ timesheet_period |-> es.timesheet_period,
                            payroll_period   |-> es.payroll_period,
                            period_match     |-> ~es.period_mismatch ],
      employee_status |-> [ active           |-> es.active_employees,
                            inactive_minimal |-> es.inactive_employees,
                            new              |-> es.new_employees,
                            terminated       |-> es.terminated_employees ] ]

-----------------------------------------------------------------------------
(* save_detailed_results                                                   *)

\* The sheets written, in order: three always (the categorization tables are
\* passed by main), three only when their table is not empty, then Statistics.
SheetsWritten(anoms, depts, breakdown) ==
    <<"Employee_Comparison", "Employee_Categories", "Category_Summary">>
    \o (IF anoms # <<>> THEN <<"Anomalies">> ELSE <<>>)
    \o (IF depts # <<>> THEN <<"Department_Summary">> ELSE <<>>)
    \o (IF breakdown # <<>> THEN <<"Hour_Categories">> ELSE <<>>)
    \o <<"Statistics">>

-----------------------------------------------------------------------------
(* The input files                                                         *)

\* Bounds of the inputs drawn.
MaxRows == 3     \* rows of the timesheet CSV and of the payroll sheet together
MaxRuns == 2     \* runs of consecutive weekly rows in a long timesheet
MaxCellLen == 4  \* characters of a cell drawn character by character

CsvRow(staff, name, dept, hours, yw) ==
    [StaffNumber |-> staff, Name |-> name, DepartmentName |-> dept,
     TotalHours |-> hours, YearWeek |-> yw]

\* Header row of the master timesheet CSV.
CsvColumns == {"Staff Number", "Name", "Department Name", "Total Hours", "YearWeek"}

\* excel_file of main()
MainExcelFile ==
    <<"1", "7", "8", "8", "-", "E", "s", "k", "e", "r", " ", "L", "o", "d", "g", "e", " ", "L", "t", "d", " ", "H", "o", "u", "r", "s", " ", "&", " ", "G", "r", "o", "s", "s", " ", "P", "a", "y", " ", "J", "a", "n", " ", "t", "o", " ", "A", "p", "r", " ", "(", "2", ")", ".", "x", "l", "s", "x">>

\* Header row of the payroll sheet: identity columns, two hour categories, a
\* gross-pay column and a column outside the category vocabulary.
PayrollColumns == <<"Sequence", "Forename", "Surname", "Depart", "Basic", "Night Rate", "Basic Gross", "Bonus">>

XlsRow(cells) == [c \in Range(PayrollColumns) |->
                     cells[CHOOSE i \in DOMAIN PayrollColumns : PayrollColumns[i] = c]]

\* Rows a master timesheet may hold: clock and numeric durations, a zero and an
\* unparseable duration, blank names and departments, blank and zero staff
\* numbers, and a row without YearWeek (the combiner sets YearWeek only for a
\* weekly file whose name carries the year and week).
TimesheetRows ==
    { CsvRow(<<"1", "0", "1">>, <<"S", "M", "I", "T", "H", ",", " ", "J", "O", "H", "N">>, <<"N", "u", "r", "s", "i", "n", "g">>,
             <<"4", "0", ":", "0", "0">>, <<"2", "0", "2", "4", "-", "W", "5", "2">>),
      CsvRow(<<"1", "0", "1">>, <<"j", "o", "h", "n", " ", " ", "s", "m", "i", "t", "h">>, <<>>,
             <<"8", ":", "3", "0">>, <<"2", "0", "2", "5", "-", "W", "0", "1">>),
      CsvRow(<<"1", "0", "1">>, <<"J", "o", "h", "n", " ", "S", "m", "i", "t", "h">>, <<"N", "u", "r", "s", "i", "n", "g">>,
             <<"1", "0", "0">>, <<"2", "0", "2", "5", "-", "W", "0", "2">>),
      CsvRow(<<"2", "0", "2">>, <<"M", "c", " ", "H", "U", "G", "H", ",", " ", "a", "n", "n">>, <<"C", "a", "r", "e">>,
             <<"8", ":", "3", "0">>, <<"2", "0", "2", "5", "-", "W", "0", "1">>),
      CsvRow(<<"2", "0", "2">>, <<>>, <<>>,
             <<"0", "0", ":", "0", "0">>, <<"2", "0", "2", "4", "-", "W", "5", "2">>),
      CsvRow(<<>>, <<"A", "g", "e", "n", "c", "y", " ", "S", "t", "a", "f", "f">>, <<"C", "a", "r", "e">>,
             <<"4", "0", ":", "0", "0">>, <<"2", "0", "2", "5", "-", "W", "0", "1">>),
      CsvRow(<<"0">>, <<"o", "'", "b", "r", "i", "e", "n", ",", " ", "p", "a", "t">>, <<"C", "a", "r", "e">>,
             <<"1", "2", ".", "5">>, <<"2", "0", "2", "5", "-", "W", "0", "1">>),
      CsvRow(<<"3", "0", "3">>, <<"M", "a", "r", "y", " ", "B", "y", "r", "n", "e">>, <<"C", "a", "r", "e">>,
             <<"x">>, <<"2", "0", "2", "4", "-", "W", "5", "2">>),
      CsvRow(<<"5", "0", "5">>, <<"J", "o", "h", "n", " ", "S", "m", "i", "t", "h">>, <<"C", "a", "r", "e">>,
             <<"8", ":", "3", "0">>, <<>>) }

\* Rows a payroll sheet may hold: several rows for one employee, blank and
\* non-numeric hour cells, an all-zero row, a blank sequence number, blank names.
PayrollRows ==
    { XlsRow(<<<<"1", "0", "1">>,
               <<"J", "o", "h", "n">>,
               <<"S", "m", "i", "t", "h">>,
               <<"N", "u", "r", "s", "i", "n", "g">>,
               <<"4", "5">>,
               <<"5">>,
               <<"9", "0", "0", ".", "5", "0">>,
               <<"3">>>>),
      XlsRow(<<<<"1", "0", "1">>,
               <<"J", "o", "h", "n">>,
               <<"S", "m", "i", "t", "h">>,
               <<>>,
               <<"1", "0", "2">>,
               <<>>,
               <<>>,
               <<>>>>),
      XlsRow(<<<<"1", "0", "1">>,
               <<"J", "O", "H", "N">>,
               <<"S", "M", "I", "T", "H">>,
               <<"N", "u", "r", "s", "i", "n", "g">>,
               <<"1", "0", "2", ".", "0", "1">>,
               <<"n", "/", "a">>,
               <<"1", "2">>,
               <<>>>>),
      XlsRow(<<<<"3", "0", "3">>,
               <<"M", "a", "r", "y">>,
               <<"B", "y", "r", "n", "e">>,
               <<"C", "a", "r", "e">>,
               <<"3", "0">>,
               <<>>,
               <<"6", "0", "0">>,
               <<"1">>>>),
      XlsRow(<<<<"3", "0", "3">>,
               <<"T", "o", "m">>,
               <<"D", "a", "l", "y">>,
               <<"A", "d", "m", "i", "n">>,
               <<"0">>,
               <<"0">>,
               <<>>,
               <<>>>>),
      XlsRow(<<<<>>,
               <<"T", "o", "t", "a", "l">>,
               <<>>,
               <<>>,
               <<"5", "0", "0">>,
               <<"5", "0">>,
               <<"9", "9", "9", "9">>,
               <<>>>>),
      XlsRow(<<<<"4", "0", "4">>,
               <<>>,
               <<>>,
               <<"C", "a", "r", "e">>,
               <<"8">>,
               <<>>,
               <<>>,
               <<>>>>) }

\* tolerance=2.0, the default of compare_hours_detailed
DefaultTolerance == 200

\* The tolerances drawn: the default, and 1.5 hours
Tolerances == {DefaultTolerance, 150}

SeqsUpTo(S, n) == UNION {[1..k -> S] : k \in 0..n}

TypicalInputs ==
    /\ csv_rows \in SeqsUpTo(TimesheetRows, MaxRows)
    /\ xls_rows \in SeqsUpTo(PayrollRows, MaxRows - Len(csv_rows))
    /\ xls_columns = PayrollColumns
    /\ csv_columns = CsvColumns
    /\ excel_file = MainExcelFile
    /\ tolerance \in Tolerances

\* A long timesheet: runs of rows of one employee over consecutive weeks, as
\* the weekly files give them. Run lengths sit on both sides of the
\* thresholds of the activity classification.
RunLengths == {InactiveWeeks - 1, InactiveWeeks, ActiveWeeks - 1, ActiveWeeks}

DigitChars == <<"0", "1", "2", "3", "4", "5", "6", "7", "8", "9">>

RECURSIVE NatToText(_)
NatToText(n) == IF n < 10 THEN <<DigitChars[n + 1]>>
                ELSE NatToText(n \div 10) \o <<DigitChars[(n % 10) + 1]>>

\* Variant: the week is left as the file name writes it.
ZFill2_None(t) == t

\* str.zfill(2)
ZFill2(t) == IF Len(t) < 2 THEN <<"0">> \o t ELSE t

\* f"{year}-W{week}" with week = match.group(2).zfill(2)
YearWeekKey(year, week) == year \o <<"-", "W">> \o ZFill2(week)

\* The k-th week after week w of year y, in years of 52 weeks.
WeekAfter(y, w, k) ==
    IF w + k <= 52 THEN <<y, w + k>> ELSE <<y + 1, w + k - 52>>

RunStarts == {<<2024, 49>>, <<2025, 1>>}

RunHours == { <<"1", "0", ":", "0", "0">>, <<"4", "0", ":", "0", "0">>,
              <<"8", ":", "3", "0">> }

Run(hours, start, n) ==
    [i \in 1..n |->
        LET yw == WeekAfter(start[1], start[2], i - 1)
        IN  CsvRow(<<"1", "0", "1">>, <<"J", "o", "h", "n", " ", "S", "m", "i", "t", "h">>,
                   <<"N", "u", "r", "s", "i", "n", "g">>, hours,
                   YearWeekKey(NatToText(yw[1]), NatToText(yw[2])))]

Runs == {Run(h, st, n) : h \in RunHours, st \in RunStarts, n \in RunLengths}

RECURSIVE Concat(_)
Concat(qs) == IF qs = <<>> THEN <<>> ELSE Head(qs) \o Concat(Tail(qs))

\* The payroll row of the employee of the runs: Basic 45.0, Night Rate 5.0.
PayrollRow101 ==
    XlsRow(<<<<"1", "0", "1">>, <<"J", "o", "h", "n">>, <<"S", "m", "i", "t", "h">>,
             <<"N", "u", "r", "s", "i", "n", "g">>, <<"4", "5">>, <<"5">>, <<>>, <<>>>>)

LongTimesheetInputs ==
    /\ csv_rows \in {Concat(qs) : qs \in SeqsUpTo(Runs, MaxRuns)}
    /\ xls_rows \in {<<>>, <<PayrollRow101>>}
    /\ xls_columns = PayrollColumns
    /\ csv_columns = CsvColumns
    /\ excel_file = MainExcelFile
    /\ tolerance = DefaultTolerance

\* A file with one row in which one cell is arbitrary text: the Staff Number
\* or the Total Hours of a timesheet row, or the Sequence of a payroll row.
\* The text is any string of at most MaxCellLen characters over digits, the
\* colon, the minus sign and a letter, or one of the durations '00:00',
\* '8:30', '8:20' and '40'.
CellChars == {"0", "1", "3", ":", "-", "h"}

ExampleCells == { <<"0", "0", ":", "0", "0">>, <<"8", ":", "3", "0">>,
                  <<"8", ":", "2", "0">>, <<"4", "0">> }

CellTexts == SeqsUpTo(CellChars, MaxCellLen) \cup ExampleCells

CellInputs ==
    /\ \E t \in CellTexts :
          \/ /\ csv_rows = << CsvRow(t, <<"J", "o", "h", "n", " ", "S", "m", "i", "t", "h">>,
                                     <<"N", "u", "r", "s", "i", "n", "g">>,
                                     <<"8", ":", "3", "0">>,
                                     <<"2", "0", "2", "5", "-", "W", "0", "1">>) >>
              /\ xls_rows = <<PayrollRow101>>
          \/ /\ csv_rows = << CsvRow(<<"1", "0", "1">>,
                                     <<"J", "o", "h", "n", " ", "S", "m", "i", "t", "h">>,
                                     <<"N", "u", "r", "s", "i", "n", "g">>, t,
                                     <<"2", "0", "2", "5", "-", "W", "0", "1">>) >>
              /\ xls_rows = <<PayrollRow101>>
          \/ /\ csv_rows = <<>>
              /\ xls_rows = << XlsRow(<<t, <<"J", "o", "h", "n">>, <<"S", "m", "i", "t", "h">>,
                                        <<"N", "u", "r", "s", "i", "n", "g">>,
                                        <<"4", "5">>, <<"5">>, <<>>, <<>>>>) >>
    /\ xls_columns = PayrollColumns
    /\ csv_columns = CsvColumns
    /\ excel_file = MainExcelFile
    /\ tolerance = DefaultTolerance

\* Files of which a column may be missing. The timesheet header is complete or
\* one column short; the payroll header is complete, one employee-information
\* column short, or without any column of the category vocabulary. A cell
\* under a header the file lacks is blank.
MaxFileRows == 2  \* rows of each file when the headers are drawn

CsvHeaders == {CsvColumns} \cup {CsvColumns \ {c} : c \in CsvColumns}

RemoveColumn(columns, col) == SelectSeq(columns, LAMBDA c : c # col)

HourlessColumns == <<"Sequence", "Forename", "Surname", "Depart", "Basic Gross", "Bonus">>

XlsHeaders ==
    {PayrollColumns, HourlessColumns}
        \cup {RemoveColumn(PayrollColumns, c) : c \in InfoColumns}

CsvRowUnder(r, columns) ==
    CsvRow(IF "Staff Number" \in columns THEN r.StaffNumber ELSE <<>>,
           IF "Name" \in columns THEN r.Name ELSE <<>>,
           IF "Department Name" \in columns THEN r.DepartmentName ELSE <<>>,
           IF "Total Hours" \in columns THEN r.TotalHours ELSE <<>>,
           IF "YearWeek" \in columns THEN r.YearWeek ELSE <<>>)

XlsRowUnder(r, columns) ==
    [c \in DOMAIN r |-> IF c \in Range(columns) THEN r[c] ELSE <<>>]

FileTimesheetRows ==
    { CsvRow(<<"1", "0", "1">>, <<"J", "o", "h", "n", " ", "S", "m", "i", "t", "h">>, <<"N", "u", "r", "s", "i", "n", "g">>,
             <<"4", "0", ":", "0", "0">>, <<"2", "0", "2", "5", "-", "W", "0", "1">>),
      CsvRow(<<"2", "0", "2">>, <<"A", "n", "n", " ", "M", "c", " ", "H", "u", "g", "h">>, <<"C", "a", "r", "e">>,
             <<"8", ":", "3", "0">>, <<"2", "0", "2", "5", "-", "W", "0", "2">>) }

FilePayrollRows ==
    { PayrollRow101,
      XlsRow(<<<<"3", "0", "3">>, <<"M", "a", "r", "y">>, <<"B", "y", "r", "n", "e">>, <<"C", "a", "r", "e">>, <<"3", "0">>, <<>>, <<"6", "0", "0">>, <<"1">>>>) }

FileInputs ==
    /\ csv_columns \in CsvHeaders
    /\ xls_columns \in XlsHeaders
    /\ \E q \in SeqsUpTo(FileTimesheetRows, MaxFileRows) :
          csv_rows = [i \in DOMAIN q |-> CsvRowUnder(q[i], csv_columns)]
    /\ \E q \in SeqsUpTo(FilePayrollRows, MaxFileRows) :
          xls_rows = [i \in DOMAIN q |-> XlsRowUnder(q[i], xls_columns)]
    /\ excel_file = MainExcelFile
    /\ tolerance = DefaultTolerance

\* Payroll workbooks under other names: a name is made of at most MaxNameParts
\* parts, among them month names and abbreviations in both cases, ' to ', a
\* parenthesised number and a week written as the timesheet period writes it
\* once 'W' is replaced by 'Week '.
MaxNameParts == 3

NameParts ==
    { <<"J", "a", "n">>, <<" ", "t", "o", " ">>, <<"A", "p", "r">>, <<"m", "a", "y">>, <<"J", "a", "n", "u", "a", "r", "y">>,
      <<"2", "0", "2", "5", "-", "W", "e", "e", "k", " ", "0", "1">>, <<" ", "(", "2", ")">>, <<".", "x", "l", "s", "x">> }

PayrollFileNames == {Concat(q) : q \in SeqsUpTo(NameParts, MaxNameParts)}

\* Timesheets whose YearWeek keys all have the form 'YYYY-Wnn': one week, two
\* weeks across the turn of the year, two employees.
NamedTimesheets ==
    { << CsvRow(<<"1", "0", "1">>, <<"J", "o", "h", "n", " ", "S", "m", "i", "t", "h">>, <<"N", "u", "r", "s", "i", "n", "g">>, <<"4", "0", ":", "0", "0">>, <<"2", "0", "2", "5", "-", "W", "0", "1">>) >>,
      << CsvRow(<<"1", "0", "1">>, <<"J", "o", "h", "n", " ", "S", "m", "i", "t", "h">>, <<"N", "u", "r", "s", "i", "n", "g">>, <<"4", "0", ":", "0", "0">>, <<"2", "0", "2", "4", "-", "W", "5", "2">>),
         CsvRow(<<"1", "0", "1">>, <<"J", "o", "h", "n", " ", "S", "m", "i", "t", "h">>, <<"N", "u", "r", "s", "i", "n", "g">>, <<"8", ":", "3", "0">>, <<"2", "0", "2", "5", "-", "W", "0", "2">>) >>,
      << CsvRow(<<"2", "0", "2">>, <<"A", "n", "n", " ", "M", "c", " ", "H", "u", "g", "h">>, <<"C", "a", "r", "e">>, <<"8", ":", "3", "0">>, <<"2", "0", "2", "5", "-", "W", "0", "2">>),
         CsvRow(<<"1", "0", "1">>, <<"J", "o", "h", "n", " ", "S", "m", "i", "t", "h">>, <<"N", "u", "r", "s", "i", "n", "g">>, <<"4", "0", ":", "0", "0">>, <<"2", "0", "2", "5", "-", "W", "0", "1">>) >> }

NameInputs ==
    /\ excel_file \in PayrollFileNames
    /\ csv_rows \in NamedTimesheets
    /\ csv_columns = CsvColumns
    /\ xls_rows = <<PayrollRow101>>
    /\ xls_columns = PayrollColumns
    /\ tolerance = DefaultTolerance

\* combine_all_timesheets.py: the master timesheet is the concatenation of the
\* weekly workbooks, each row stamped with the year and week read from the name
\* of its workbook and the rows sorted by Year and Week.

\* re.search(r'(\d{4})-W(\d{1,2})', filename): the leftmost place where four
\* digits, '-W' and a digit follow one another; the week takes a second digit
\* when there is one. <<>> stands for (None, None).
WeekPatternAt(s, i) ==
    /\ i + 6 <= Len(s)
    /\ AllDigits(SubSeq(s, i, i + 3))
    /\ s[i + 4] = "-" /\ s[i + 5] = "W"
    /\ IsDigit(s[i + 6])

extract_week_info(filename) ==
    LET starts == {i \in 1..Len(filename) : WeekPatternAt(filename, i)}
    IN  IF starts = {} THEN <<>>
        ELSE LET i    == CHOOSE x \in starts : \A y \in starts : x <= y
                 last == IF i + 7 <= Len(filename) /\ IsDigit(filename[i + 7])
                         THEN i + 7 ELSE i + 6
             IN  << SubSeq(filename, i, i + 3), ZFill2(SubSeq(filename, i + 6, last)) >>

\* One row of a weekly workbook in the master file: Year, Week and YearWeek are
\* set only when the name of the workbook gave a year and a week.
CombinedRow(r, filename) ==
    LET info == extract_week_info(filename)
    IN  [ StaffNumber    |-> r.StaffNumber,
          Name           |-> r.Name,
          DepartmentName |-> r.DepartmentName,
          TotalHours     |-> r.TotalHours,
          Year           |-> IF info = <<>> THEN <<>> ELSE <<NatOf(info[1])>>,
          Week           |-> IF info = <<>> THEN <<>> ELSE <<NatOf(info[2])>>,
          YearWeek       |-> IF info = <<>> THEN <<>> ELSE YearWeekKey(info[1], info[2]) ]

\* sort_values(['Year', 'Week', 'Staff Number']): rows without Year last.
ComesBefore(a, b) ==
    IF a.Year = <<>> THEN FALSE
    ELSE IF b.Year = <<>> THEN TRUE
    ELSE \/ a.Year[1] < b.Year[1]
         \/ a.Year[1] = b.Year[1] /\ a.Week[1] < b.Week[1]
         \/ /\ a.Year[1] = b.Year[1] /\ a.Week[1] = b.Week[1]
            /\ NatOf(a.StaffNumber) < NatOf(b.StaffNumber)

RECURSIVE SortRows(_)
SortRows(rows) ==
    IF rows = <<>> THEN <<>>
    ELSE LET m == CHOOSE i \in DOMAIN rows :
                      /\ \A j \in DOMAIN rows : ~ComesBefore(rows[j], rows[i])
                      /\ \A j \in 1..(i - 1) : ComesBefore(rows[i], rows[j])
                                                  \/ ComesBefore(rows[j], rows[i])
         IN  <<rows[m]>> \o SortRows(SubSeq(rows, 1, m - 1) \o SubSeq(rows, m + 1, Len(rows)))

\* The weekly workbooks: 'EskerLodgeNursingHome-*.xlsx' with, for *, a year,
\* '-W' and up to two digits, or a name the pattern reads otherwise or not at
\* all. Each workbook holds one row of employee 101 or of employee 202.
MaxFiles == 2

WeekDigits == {"0", "1", "9"}

WeeklyStems ==
    { y \o <<"-", "W">> \o w :
          y \in {<<"2", "0", "2", "4">>, <<"2", "0", "2", "5">>},
          w \in SeqsUpTo(WeekDigits, 2) }
    \cup { <<"1", "2", "0", "2", "5", "-", "W", "1", "2", "3">>, <<"2", "0", "2", "5", "-", "w", "0", "3">>, <<"C", "o", "p", "y">> }

WeeklyFileNames ==
    { <<"E", "s", "k", "e", "r", "L", "o", "d", "g", "e", "N", "u", "r", "s", "i", "n", "g", "H", "o", "m", "e", "-">> \o stem \o <<".", "x", "l", "s", "x">> :
          stem \in WeeklyStems }

WeeklyRows ==
    { CsvRow(<<"1", "0", "1">>, <<"J", "o", "h", "n", " ", "S", "m", "i", "t", "h">>, <<"N", "u", "r", "s", "i", "n", "g">>, <<"4", "0", ":", "0", "0">>, <<>>),
      CsvRow(<<"2", "0", "2">>, <<"A", "n", "n", " ", "M", "c", " ", "H", "u", "g", "h">>, <<"C", "a", "r", "e">>, <<"8", ":", "3", "0">>, <<>>) }

CombinedInputs ==
    /\ \E files \in SeqsUpTo(WeeklyFileNames, MaxFiles) :
          /\ files # <<>>
          /\ \E r \in WeeklyRows :
                csv_rows = SortRows([i \in DOMAIN files |-> CombinedRow(r, files[i])])
    /\ csv_columns = IF \E i \in DOMAIN csv_rows : csv_rows[i].YearWeek # <<>>
                     THEN CsvColumns ELSE CsvColumns \ {"YearWeek"}
    /\ excel_file = MainExcelFile
    /\ xls_rows = <<>>
    /\ xls_columns = PayrollColumns
    /\ tolerance = DefaultTolerance

-----------------------------------------------------------------------------
(* main                                                                    *)

\* pc follows main(): "start", then one value per statement of the try block
\* that has completed; "returned" once the eight results were returned and
\* "failed" once the except clause returned None for each of them.
NotRun ==
    /\ pc = "start"
    /\ timesheet_df = <<>>
    /\ payroll_df = <<>>
    /\ hour_categories = <<>>
    /\ comparison_df = <<>>
    /\ comparison_report = <<>>
    /\ anomalies = <<>>
    /\ dept_summary = <<>>
    /\ category_breakdown = <<>>
    /\ stats = <<>>
    /\ employee_categories = <<>>
    /\ category_summary = <<>>
    /\ enhanced_stats = <<>>
    /\ comparison_metrics = <<>>
    /\ output_file = ""
    /\ workbook = <<>>

Init == TypicalInputs /\ NotRun

InitLong == LongTimesheetInputs /\ NotRun

InitCells == CellInputs /\ NotRun

InitFiles == FileInputs /\ NotRun

InitNames == NameInputs /\ NotRun

InitWeeks == CombinedInputs /\ NotRun

\* Variant: only the lookup of 'Name' can fail.
LoadTimesheetRaises_NameOnly(columns) == "Name" \notin columns

\* df['Name'], df['Staff Number'] and df['Total Hours'] raise KeyError on a
\* CSV without the column.
LoadTimesheetRaises(columns) == ~({"Name", "Staff Number", "Total Hours"} \subseteq columns)

\* Variant: only the lookup of 'Sequence' can fail.
LoadPayrollRaises_SequenceOnly(columns) == "Sequence" \notin Range(columns)

\* df['Forename'], df['Surname'] and df['Sequence'] raise KeyError on a sheet
\* without the column.
LoadPayrollRaises(columns) ==
    ~({"Forename", "Surname", "Sequence"} \subseteq Range(columns))

\* The two groupby(...).agg(...) name 'Department Name' and 'Depart'.
CompareRaises(ts_columns, pay_columns) ==
    "Department Name" \notin ts_columns \/ "Depart" \notin Range(pay_columns)

\* timesheet_df = load_and_clean_timesheet_data(csv_file)
LoadTimesheet ==
    /\ pc = "start"
    /\ IF LoadTimesheetRaises(csv_columns)
       THEN pc' = "failed" /\ UNCHANGED timesheet_df
       ELSE /\ timesheet_df' = load_and_clean_timesheet_data(csv_rows)
            /\ pc' = "timesheet_loaded"
    /\ UNCHANGED <<inputs, payroll_df, hour_categories, comparison_df, comparison_report,
                   anomalies, dept_summary, category_breakdown, stats, employee_categories,
                   category_summary, enhanced_stats, comparison_metrics, output_file,
                   workbook>>

\* payroll_df, hour_categories = load_and_clean_payroll_data_detailed(excel_file, sheet_name)
LoadPayroll ==
    /\ pc = "timesheet_loaded"
    /\ IF LoadPayrollRaises(xls_columns)
       THEN pc' = "failed" /\ UNCHANGED <<payroll_df, hour_categories>>
       ELSE /\ payroll_df' = load_and_clean_payroll_data_detailed(xls_columns, xls_rows)
            /\ hour_categories' = MapHourCategories(xls_columns)
            /\ pc' = "payroll_loaded"
    /\ UNCHANGED <<inputs, timesheet_df, comparison_df, comparison_report, anomalies,
                   dept_summary, category_breakdown, stats, employee_categories,
                   category_summary, enhanced_stats, comparison_metrics, output_file,
                   workbook>>

\* comparison_df, hour_categories = compare_hours_detailed(...)
CompareHours ==
    /\ pc = "payroll_loaded"
    /\ IF CompareRaises(csv_columns, xls_columns)
       THEN pc' = "failed" /\ UNCHANGED comparison_df
       ELSE /\ comparison_df' = compare_hours_detailed(timesheet_df, payroll_df,
                                                       hour_categories, tolerance)
            /\ pc' = "compared"
    /\ UNCHANGED <<inputs, timesheet_df, payroll_df, hour_categories, comparison_report,
                   anomalies, dept_summary, category_breakdown, stats, employee_categories,
                   category_summary, enhanced_stats, comparison_metrics, output_file,
                   workbook>>

\* comparison_report, anomalies, dept_summary, category_breakdown, stats =
\*     generate_detailed_reports(comparison_df, hour_categories, tolerance)
GenerateDetailedReports ==
    /\ pc = "compared"
    /\ \E report \in SortedByAbsDifference(
                        [i \in DOMAIN comparison_df |->
                            ReportRow(comparison_df[i], hour_categories)]) :
          /\ comparison_report' = report
          /\ anomalies' = SelectSeq(report, IsAnomaly)
          /\ dept_summary' = DeptSummary(report, hour_categories)
          /\ category_breakdown' = CategoryBreakdown(report, hour_categories)
          /\ stats' = Statistics(report, SelectSeq(report, IsAnomaly), tolerance)
    /\ pc' = "reported"
    /\ UNCHANGED <<inputs, timesheet_df, payroll_df, hour_categories, comparison_df,
                   employee_categories, category_summary, enhanced_stats,
                   comparison_metrics, output_file, workbook>>

\* ..., enhanced_stats, employee_categories, category_summary, comparison_metrics =
\*     generate_comparison_reports(..., stats, excel_file, timesheet_df, payroll_df)
\* The timesheet period is computed outside any try, and so is the groupby on
\* 'Category', which raises KeyError on a categorization without columns.
GenerateComparisonReports ==
    /\ pc = "reported"
    /\ \E period \in TimesheetPeriodOutcomes(csv_columns, timesheet_df),
          payroll_period \in {extract_date_range_from_filename(excel_file)} :
          IF \/ period = <<>>
             \/ "Category" \notin Range(CategorizationColumns(comparison_report,
                                                               timesheet_df))
          THEN /\ pc' = "failed"
               /\ UNCHANGED <<employee_categories, category_summary, enhanced_stats,
                              comparison_metrics>>
          ELSE /\ employee_categories' =
                      categorize_employees_by_activity(comparison_report, timesheet_df)
               /\ category_summary' = CategorySummary(employee_categories')
               /\ enhanced_stats' = EnhancedStatistics(stats, payroll_period, period[1],
                                                       employee_categories')
               /\ comparison_metrics' = ComparisonMetrics(enhanced_stats')
               /\ pc' = "categorized"
    /\ UNCHANGED <<inputs, timesheet_df, payroll_df, hour_categories, comparison_df,
                   comparison_report, anomalies, dept_summary, category_breakdown, stats,
                   output_file, workbook>>

\* output_file = save_detailed_results(...), then the display and the return.
\* Writing the workbook either succeeds or raises inside the function, which
\* then returns None; main returns the eight results in both cases.
SaveDetailedResults ==
    /\ pc = "categorized"
    /\ \/ /\ output_file' = "esker_lodge_enhanced_analysis.xlsx"
          /\ workbook' = SheetsWritten(anomalies, dept_summary, category_breakdown)
       \/ /\ output_file' = "None"
          /\ workbook' = <<>>
    /\ pc' = "returned"
    /\ UNCHANGED <<inputs, timesheet_df, payroll_df, hour_categories, comparison_df,
                   comparison_report, anomalies, dept_summary, category_breakdown, stats,
                   employee_categories, category_summary, enhanced_stats,
                   comparison_metrics>>

Next ==
    \/ LoadTimesheet
    \/ LoadPayroll
    \/ CompareHours
    \/ GenerateDetailedReports
    \/ GenerateComparisonReports
    \/ SaveDetailedResults

Spec == Init /\ [][Next]_vars

SpecLong == InitLong /\ [][Next]_vars

SpecCells == InitCells /\ [][Next]_vars

SpecFiles == InitFiles /\ [][Next]_vars

SpecNames == InitNames /\ [][Next]_vars

SpecWeeks == InitWeeks /\ [][Next]_vars

-----------------------------------------------------------------------------
(* Properties                                                              *)

Compared == pc \in {"compared", "reported", "categorized", "returned"}

Reported == pc \in {"reported", "categorized", "returned"}

Categorized == pc \in {"categorized", "returned"}

\* The ids of the loaded timesheet and payroll records.
TimesheetIds == {timesheet_df[i].Employee_ID : i \in DOMAIN timesheet_df}

PayrollIds == {payroll_df[i].Employee_ID : i \in DOMAIN payroll_df}

\* Hours of the loaded records of one employee, counted 0 for a missing side.
TimesheetHoursOf(id) ==
    SumSeq([i \in DOMAIN timesheet_df |->
               IF timesheet_df[i].Employee_ID = id THEN timesheet_df[i].TotalHours ELSE 0])

PayrollHoursOf(id) ==
    SumSeq([i \in DOMAIN payroll_df |->
               IF payroll_df[i].Employee_ID = id
               THEN payroll_df[i].Total_Payroll_Hours ELSE 0])

\* C1: the comparison table has exactly one row for every employee id of the
\* timesheet records or of the payroll records, and no row for any other id:
\* its ids are the outer-join union of both id sets, without duplicates.
C1_OuterJoinRows ==
    Compared =>
        /\ \A id \in TimesheetIds \cup PayrollIds :
               Cardinality({i \in DOMAIN comparison_df :
                               comparison_df[i].Employee_ID = id}) = 1
        /\ \A i \in DOMAIN comparison_df :
               /\ comparison_df[i].Employee_ID \in TimesheetIds \cup PayrollIds
               /\ comparison_df[i].Employee_ID > 0

\* A comparison of an employee in both sources with an employee in one only.
C1_Witness ==
    /\ Compared
    /\ TimesheetIds \cap PayrollIds # {}
    /\ (TimesheetIds \ PayrollIds) \cup (PayrollIds \ TimesheetIds) # {}
    /\ Len(comparison_df) = 2

\* C2: in every comparison row the difference is the employee's payroll hours
\* minus the employee's timesheet hours, a missing side counting 0: +P for a
\* payroll-only employee with total P, -T for a timesheet-only one with total T.
C2_SignedDifference ==
    Compared =>
        \A i \in DOMAIN comparison_df :
            LET r == comparison_df[i] IN
            /\ r.Total_Difference = r.Total_Payroll_Hours - r.TotalHours
            /\ r.Total_Difference =
                   PayrollHoursOf(r.Employee_ID) - TimesheetHoursOf(r.Employee_ID)
            /\ r.Employee_ID \notin TimesheetIds => r.Total_Difference = r.Total_Payroll_Hours
            /\ r.Employee_ID \notin PayrollIds => r.Total_Difference = -r.TotalHours

\* A payroll-only employee with a positive difference next to a
\* timesheet-only employee with a negative one.
C2_Witness ==
    /\ Compared
    /\ \E i, j \in DOMAIN comparison_df :
          /\ comparison_df[i].Employee_ID \notin TimesheetIds
          /\ comparison_df[i].Total_Difference > 0
          /\ comparison_df[j].Employee_ID \notin PayrollIds
          /\ comparison_df[j].Total_Difference < 0

\* C3: the mismatch flag of a row is true exactly when the absolute difference
\* of the employee's payroll and timesheet hours is strictly greater than the
\* tolerance; an absolute difference equal to the tolerance is no mismatch.
C3_MismatchStrict ==
    Compared =>
        \A i \in DOMAIN comparison_df :
            LET r == comparison_df[i]
                d == PayrollHoursOf(r.Employee_ID) - TimesheetHoursOf(r.Employee_ID)
            IN  /\ r.Mismatch <=> (Abs(d) > tolerance)
                /\ Abs(d) = tolerance => ~r.Mismatch

\* Timesheet 100.0 against payroll 102.0 at tolerance 2.0: on the boundary.
C3_Witness ==
    /\ Compared
    /\ tolerance = 200
    /\ \E i \in DOMAIN comparison_df :
          /\ comparison_df[i].TotalHours = 10000
          /\ comparison_df[i].Total_Payroll_Hours = 10200
          /\ ~comparison_df[i].Mismatch

\* C4: has_timesheet_data holds exactly when the row's timesheet total is > 0,
\* has_payroll_data exactly when its payroll total is > 0, in_both_systems
\* exactly when both hold; an employee only in payroll with total 30 has
\* has_timesheet_data false, has_payroll_data true and difference 30.
C4_PresenceFlags ==
    Reported =>
        \A i \in DOMAIN comparison_report :
            LET r == comparison_report[i] IN
            /\ r.HasTimesheetData <=> TimesheetHoursOf(r.EmployeeID) > 0
            /\ r.HasPayrollData <=> PayrollHoursOf(r.EmployeeID) > 0
            /\ r.InBothSystems <=> (r.HasTimesheetData /\ r.HasPayrollData)
            /\ (r.EmployeeID \notin TimesheetIds /\ PayrollHoursOf(r.EmployeeID) = 3000) =>
                   /\ ~r.HasTimesheetData
                   /\ r.HasPayrollData
                   /\ r.TotalDifference = 3000

\* The employee only in payroll with total 30.0, next to a row of zero hours.
C4_Witness ==
    /\ Reported
    /\ \E i \in DOMAIN comparison_report :
          /\ comparison_report[i].EmployeeID \notin TimesheetIds
          /\ comparison_report[i].PayrollHoursTotal = 3000
          /\ ~comparison_report[i].HasTimesheetData
    /\ \E i \in DOMAIN comparison_report :
          /\ comparison_report[i].EmployeeID \in TimesheetIds
          /\ comparison_report[i].TimesheetHours = 0

\* C5 as claimed: an employee whose id is only in the payroll records is
\* categorized 'Terminated/Payroll Only', whatever the payroll hours are.
C5_PayrollOnlyAlwaysTerminated ==
    Categorized =>
        \A i \in DOMAIN employee_categories :
            employee_categories[i].EmployeeID \in PayrollIds \ TimesheetIds =>
                employee_categories[i].Category = "Terminated/Payroll Only"

\* C5 as amended: an employee whose id is only in the payroll records is
\* categorized 'Terminated/Payroll Only' when the payroll total is greater than
\* 0 and 'Unknown' when it is not; no other category is ever given.
C5_PayrollOnlyCategory ==
    Categorized =>
        \A i \in DOMAIN employee_categories :
            employee_categories[i].EmployeeID \in PayrollIds \ TimesheetIds =>
                employee_categories[i].Category =
                    IF PayrollHoursOf(employee_categories[i].EmployeeID) > 0
                    THEN "Terminated/Payroll Only" ELSE "Unknown"

\* A categorized employee with payroll hours and no timesheet record.
C5_Witness ==
    /\ Categorized
    /\ \E i \in DOMAIN employee_categories :
          /\ employee_categories[i].EmployeeID \in PayrollIds \ TimesheetIds
          /\ PayrollHoursOf(employee_categories[i].EmployeeID) > 0
          /\ employee_categories[i].Category = "Terminated/Payroll Only"

\* The text cells of the timesheet file that belong to one employee id.
CsvRowsOf(id) == SelectSeq(csv_rows, LAMBDA r : ToNumeric(ReadCell(r.StaffNumber)) = <<id>>)

\* C6: the timesheet total of a comparison row is the sum of the converted
\* Total Hours of every timesheet row of that employee, over all periods; the
\* rows '40:00' and '8:30' give 48.5 and, against Basic 45.0 + Night Rate 5.0
\* at tolerance 2.0, difference 1.5, no mismatch, in both systems.
C6_TimesheetTotalIsSum ==
    Compared =>
        \A i \in DOMAIN comparison_df :
            LET r    == comparison_df[i]
                rows == CsvRowsOf(r.Employee_ID)
                hrs  == [k \in DOMAIN rows |-> rows[k].TotalHours]
            IN  /\ r.TotalHours =
                       SumSeq([k \in DOMAIN rows |->
                                  convert_time_to_hours(ReadCell(rows[k].TotalHours))])
                /\ ( /\ Len(rows) = 2
                     /\ {hrs[1], hrs[2]} = {<<"4", "0", ":", "0", "0">>, <<"8", ":", "3", "0">>} )
                   => r.TotalHours = 4850
                /\ ( /\ r.TotalHours = 4850
                     /\ r.Total_Payroll_Hours = 5000
                     /\ tolerance = 200 )
                   => /\ r.Total_Difference = 150
                      /\ ~r.Mismatch
                      /\ r.In_Both

\* The end-to-end scenario: two weekly rows '40:00' and '8:30' of one employee
\* against payroll Basic 45.0 and Night Rate 5.0.
C6_Witness ==
    /\ Compared
    /\ tolerance = 200
    /\ \E i \in DOMAIN comparison_df :
          /\ Len(CsvRowsOf(comparison_df[i].Employee_ID)) = 2
          /\ comparison_df[i].TotalHours = 4850
          /\ comparison_df[i].Total_Payroll_Hours = 5000
          /\ comparison_df[i].Hours["Basic"] = 4500
          /\ comparison_df[i].Hours["Night Rate"] = 500

\* C7: the per-category hours add up to the payroll total, for every payroll
\* record after loading and for every comparison row after aggregation and
\* outer join; a timesheet-only employee has every category and the total 0.
C7_CategoriesSumToTotal ==
    /\ \A i \in DOMAIN payroll_df :
           SumOver(payroll_df[i].Hours, DOMAIN payroll_df[i].Hours)
               = payroll_df[i].Total_Payroll_Hours
    /\ \A i \in DOMAIN comparison_df :
           LET r == comparison_df[i] IN
           /\ SumOver(r.Hours, DOMAIN r.Hours) = r.Total_Payroll_Hours
           /\ r.Total_Payroll_Hours = PayrollHoursOf(r.Employee_ID)
           /\ \A c \in DOMAIN r.Hours :
                  r.Hours[c] = SumSeq([k \in DOMAIN payroll_df |->
                                          IF payroll_df[k].Employee_ID = r.Employee_ID
                                          THEN payroll_df[k].Hours[c] ELSE 0])
           /\ r.Employee_ID \notin PayrollIds =>
                  /\ r.Total_Payroll_Hours = 0
                  /\ \A c \in DOMAIN r.Hours : r.Hours[c] = 0
    /\ \A i \in DOMAIN comparison_report :
           LET r == comparison_report[i] IN
           SumSeq(r.CategoryHours) = r.PayrollHoursTotal

\* An employee with two payroll rows and hours in both categories, next to a
\* timesheet-only employee.
C7_Witness ==
    /\ Reported
    /\ \E i \in DOMAIN comparison_df :
          /\ Len(GroupOf(payroll_df, comparison_df[i].Employee_ID)) = 2
          /\ \A c \in DOMAIN comparison_df[i].Hours : comparison_df[i].Hours[c] > 0
    /\ \E i \in DOMAIN comparison_df :
          /\ comparison_df[i].Employee_ID \notin PayrollIds
          /\ comparison_df[i].TotalHours > 0

\* The distinct period keys of one employee's timesheet records.
PeriodsOf(id) == {timesheet_df[i].YearWeek :
                     i \in {k \in DOMAIN timesheet_df : timesheet_df[k].Employee_ID = id}}

\* C8: an employee in both systems with P distinct timesheet periods and H
\* summed timesheet hours is 'Active' iff P >= 10 and H > 100, otherwise
\* 'Inactive/Minimal' iff P < 5 or H < 50, otherwise 'Moderate Activity'.
C8_ActivityByDistinctPeriods ==
    Categorized =>
        \A i \in DOMAIN employee_categories :
            LET e == employee_categories[i]
                P == Cardinality(PeriodsOf(e.EmployeeID))
                H == TimesheetHoursOf(e.EmployeeID)
            IN  (H > 0 /\ PayrollHoursOf(e.EmployeeID) > 0) =>
                    e.Category =
                        IF P >= 10 /\ H > 10000 THEN "Active"
                        ELSE IF P < 5 \/ H < 5000 THEN "Inactive/Minimal"
                        ELSE "Moderate Activity"

\* C9: a timesheet-only employee (timesheet total > 0, no payroll hours) is
\* 'New Employee' iff the earliest period key of the employee is at or after
\* '2025-W01', that is iff none of the employee's keys is before it, and
\* 'Timesheet Only' otherwise.
C9_NewEmployeeBoundary ==
    Categorized =>
        \A i \in DOMAIN employee_categories :
            LET e == employee_categories[i] IN
            (TimesheetHoursOf(e.EmployeeID) > 0 /\ PayrollHoursOf(e.EmployeeID) <= 0) =>
                e.Category =
                    IF \A k \in PeriodsOf(e.EmployeeID) : ~TextLess(k, CurrentYearStart)
                    THEN "New Employee" ELSE "Timesheet Only"

\* A timesheet-only employee whose earliest period is the boundary itself, next
\* to a timesheet-only employee who started before it.
C9_Witness ==
    /\ Categorized
    /\ \E i, j \in DOMAIN employee_categories :
          /\ employee_categories[i].Category = "New Employee"
          /\ CurrentYearStart \in PeriodsOf(employee_categories[i].EmployeeID)
          /\ employee_categories[i].PayrollHoursTotal = 0
          /\ employee_categories[j].Category = "Timesheet Only"
          /\ employee_categories[j].TimesheetHours > 0

\* C10: every category assigned is one of Active, Inactive/Minimal, Moderate
\* Activity, New Employee, Terminated/Payroll Only, Timesheet Only, Unknown;
\* 'Inactive/No Timesheet' is never assigned, since the categorization reads
\* the timesheet records the comparison table was built from.
C10_SevenCategories ==
    Categorized =>
        \A i \in DOMAIN employee_categories :
            /\ employee_categories[i].Category \in
                   {"Active", "Inactive/Minimal", "Moderate Activity", "New Employee",
                    "Terminated/Payroll Only", "Timesheet Only", "Unknown"}
            /\ employee_categories[i].Category # "Inactive/No Timesheet"

\* An employee in both systems has been categorized.
C10_Witness ==
    /\ Categorized
    /\ \E i \in DOMAIN employee_categories :
          /\ employee_categories[i].TimesheetHours > 0
          /\ employee_categories[i].PayrollHoursTotal > 0
          /\ employee_categories[i].Category \in {"Active", "Moderate Activity"}

\* Every loaded record has non-negative hours: timesheet hours, payroll total
\* and every payroll category.
WellFormedRecords ==
    /\ \A i \in DOMAIN timesheet_df : timesheet_df[i].TotalHours >= 0
    /\ \A i \in DOMAIN payroll_df :
           /\ payroll_df[i].Total_Payroll_Hours >= 0
           /\ \A c \in DOMAIN payroll_df[i].Hours : payroll_df[i].Hours[c] >= 0

\* C11 as claimed: when every record has a positive employee id and
\* non-negative hours, no employee is categorized 'Unknown'.
C11_NeverUnknown ==
    (Categorized /\ WellFormedRecords) =>
        \A i \in DOMAIN employee_categories :
            employee_categories[i].Category # "Unknown"

\* C11 as amended: when every record has a positive employee id and
\* non-negative hours, an employee is categorized 'Unknown' exactly when both
\* its timesheet total and its payroll total are 0; an employee with hours on
\* either side falls into the in-both, timesheet-only or payroll-only branch.
C11_UnknownOnlyWithoutHours ==
    (Categorized /\ WellFormedRecords) =>
        \A i \in DOMAIN employee_categories :
            LET e == employee_categories[i] IN
            /\ e.EmployeeID > 0
            /\ (e.Category = "Unknown") <=>
                   (TimesheetHoursOf(e.EmployeeID) = 0 /\ PayrollHoursOf(e.EmployeeID) = 0)

\* An employee whose only timesheet record has zero hours is 'Unknown', next
\* to an employee with hours who is not.
C11_Witness ==
    /\ Categorized
    /\ WellFormedRecords
    /\ \E i, j \in DOMAIN employee_categories :
          /\ employee_categories[i].EmployeeID \in TimesheetIds
          /\ TimesheetHoursOf(employee_categories[i].EmployeeID) = 0
          /\ employee_categories[i].Category = "Unknown"
          /\ PayrollHoursOf(employee_categories[j].EmployeeID) > 0
          /\ employee_categories[j].Category # "Unknown"

\* An identifier cell that is a positive number: decimal digits, not all zero.
\* Every other cell drawn is blank, not a number, zero or negative.
PositiveNumberText(cell) == AllDigits(cell) /\ NatOf(cell) > 0

\* The identifiers, in hundredths, of the cells that are positive numbers.
KeptIds(cells) ==
    LET kept == SelectSeq(cells, PositiveNumberText)
    IN  [i \in DOMAIN kept |-> 100 * NatOf(kept[i])]

\* The payroll rows whose composed name is not blank.
NamedPayrollRows == SelectSeq(xls_rows, LAMBDA r : r["Forename"] # <<>> \/ r["Surname"] # <<>>)

\* C12: the timesheet loader keeps exactly the rows whose Staff Number is a
\* positive number and the payroll loader exactly the (named) rows whose
\* Sequence is one, each with its identifier unchanged and in file order; a
\* row whose identifier is blank, not a number, zero or negative is excluded,
\* and every record and every comparison row has a positive employee id.
C12_OnlyPositiveIds ==
    /\ pc # "start" =>
           [i \in DOMAIN timesheet_df |-> timesheet_df[i].Employee_ID]
               = KeptIds([i \in DOMAIN csv_rows |-> csv_rows[i].StaffNumber])
    /\ pc \notin {"start", "timesheet_loaded"} =>
           [i \in DOMAIN payroll_df |-> payroll_df[i].Employee_ID]
               = KeptIds([i \in DOMAIN NamedPayrollRows |-> NamedPayrollRows[i]["Sequence"]])
    /\ \A i \in DOMAIN timesheet_df : timesheet_df[i].Employee_ID > 0
    /\ \A i \in DOMAIN payroll_df : payroll_df[i].Employee_ID > 0
    /\ \A i \in DOMAIN comparison_df : comparison_df[i].Employee_ID > 0

\* Both loaders have run on a timesheet row with the negative Staff Number
\* '-1': the row is excluded and the payroll row with Sequence 101 is kept.
C12_Witness ==
    /\ pc = "payroll_loaded"
    /\ Len(csv_rows) = 1
    /\ csv_rows[1].StaffNumber = <<"-", "1">>
    /\ timesheet_df = <<>>
    /\ Len(payroll_df) = 1
    /\ payroll_df[1].Employee_ID = 10100

\* C13: once the employees are categorized, the categorization table has
\* exactly one row for every comparison row, with the same Employee ID,
\* Timesheet Hours, Payroll Hours Total and Total Difference, and no other row.
C13_CategorizationCoversComparison ==
    Categorized =>
        /\ Len(employee_categories) = Len(comparison_df)
        /\ \A i \in DOMAIN comparison_df :
               Cardinality({j \in DOMAIN employee_categories :
                   /\ employee_categories[j].EmployeeID = comparison_df[i].Employee_ID
                   /\ employee_categories[j].TimesheetHours = comparison_df[i].TotalHours
                   /\ employee_categories[j].PayrollHoursTotal =
                          comparison_df[i].Total_Payroll_Hours
                   /\ employee_categories[j].TotalDifference =
                          comparison_df[i].Total_Difference}) = 1

\* C14: employees_with_mismatches of the statistics record is the number of
\* comparison rows whose mismatch flag is true.
C14_MismatchCount ==
    Reported =>
        stats.employees_with_mismatches =
            Cardinality({i \in DOMAIN comparison_df : comparison_df[i].Mismatch})

\* C15: with a non-empty comparison table coverage_rate is
\* employees_in_both_systems / total_employees * 100 (here in hundredths of a
\* percent, rounded down), between 0 and 100; with an empty table it is 0.
\* The two counts are those of the comparison table.
C15_CoverageRate ==
    Reported =>
        /\ stats.total_employees = Len(comparison_df)
        /\ stats.employees_in_both_systems =
               Cardinality({i \in DOMAIN comparison_df : comparison_df[i].In_Both})
        /\ stats.total_employees > 0 =>
               /\ stats.coverage_rate * stats.total_employees
                      <= stats.employees_in_both_systems * 10000
               /\ stats.employees_in_both_systems * 10000
                      < (stats.coverage_rate + 1) * stats.total_employees
               /\ stats.coverage_rate >= 0
               /\ stats.coverage_rate <= 10000
        /\ stats.total_employees = 0 => stats.coverage_rate = 0

\* Statistics of a table of two employees of whom one is in both systems.
C15_Witness ==
    /\ Reported
    /\ stats.total_employees = 2
    /\ stats.employees_in_both_systems = 1
    /\ stats.coverage_rate = 5000

\* The timesheet rows the loader keeps, as raw text: record i of timesheet_df
\* is made from row i of these.
KeptCsvRows == SelectSeq(csv_rows, LAMBDA r : PositiveNumberText(r.StaffNumber))

\* A clock text 'H:MM': digits, one colon, digits.
IsClock(t) ==
    \E k \in 2..(Len(t) - 1) :
        t[k] = ":" /\ AllDigits(SubSeq(t, 1, k - 1)) /\ AllDigits(SubSeq(t, k + 1, Len(t)))

ClockHours(t) == NatOf(SubSeq(t, 1, Find(t, ":") - 1))

ClockMinutes(t) == NatOf(SubSeq(t, Find(t, ":") + 1, Len(t)))

\* Digits with an optional minus sign: the texts int() accepts among those drawn.
IsSignedDigits(t) == t # <<>> /\ AllDigits(IF Head(t) = "-" THEN Tail(t) ELSE t)

\* A text for which the conversion of int() or float() raises: without a
\* colon the text is no number, with one the hours or the minutes part is not.
Unparseable(t) ==
    IF Contains(t, ":")
    THEN ~(IsSignedDigits(SplitFirst(t, ":")) /\ IsSignedDigits(SplitSecond(t, ":")))
    ELSE ~IsSignedDigits(t)

\* Total Hours text t converted to r hundredths of an hour. A clock text gives
\* H + M/60 to within slack/3 hundredths (slack 0: exactly), a number gives
\* itself, a blank, '00:00' or unparseable text gives 0.
DurationConverted(t, r, slack) ==
    /\ IsClock(t) =>
           Abs(3 * r - (300 * ClockHours(t) + 5 * ClockMinutes(t))) <= slack
    /\ AllDigits(t) => r = 100 * NatOf(t)
    /\ (t = <<>> \/ t = <<"0", "0", ":", "0", "0">> \/ Unparseable(t)) => r = 0
    /\ t = <<"8", ":", "3", "0">> => r = 850
    /\ t = <<"0", ":", "0", "0">> => r = 0
    /\ t = <<"4", "0">> => r = 4000

\* C16 as claimed: the duration conversion maps 'H:MM' to exactly H + M/60
\* hours, a number to itself and a blank, '00:00' or unparseable value to 0:
\* '8:30' gives 8.5, '0:00' gives 0, '' gives 0, '40' gives 40.
C16_ExactClockHours ==
    pc # "start" =>
        \A i \in DOMAIN timesheet_df :
            DurationConverted(KeptCsvRows[i].TotalHours, timesheet_df[i].TotalHours, 0)

\* C16 as amended: the duration conversion maps 'H:MM' to H + M/60 hours
\* rounded to two decimals (within half a hundredth of the exact value), a
\* number to itself and a blank, '00:00' or unparseable value to 0.
C16_RoundedClockHours ==
    pc # "start" =>
        \A i \in DOMAIN timesheet_df :
            DurationConverted(KeptCsvRows[i].TotalHours, timesheet_df[i].TotalHours, 1)

\* The loader has converted '8:20', whose exact value 8 + 1/3 has no two
\* decimal form, to 8.33.
C16_Witness ==
    /\ pc # "start"
    /\ Len(timesheet_df) = 1
    /\ KeptCsvRows[1].TotalHours = <<"8", ":", "2", "0">>
    /\ timesheet_df[1].TotalHours = 833

\* C17: every Total Hours of a loaded timesheet record is non-negative, and so
\* is every timesheet total of the comparison table.
C17_HoursNonNegative ==
    /\ \A i \in DOMAIN timesheet_df : timesheet_df[i].TotalHours >= 0
    /\ \A i \in DOMAIN comparison_df : comparison_df[i].TotalHours >= 0

\* The normal form the name normalizer is to give: 'Surname, Forename' split at
\* the first comma and reassembled as 'Forename Surname', a comma-free name
\* as it is; trimmed, blanks collapsed, title case.
NormalizedName(n) ==
    IF Contains(n, ",")
    THEN Title(CollapseBlanks(Strip(SubSeq(n, Find(n, ",") + 1, Len(n)))))
         \o <<" ">> \o Title(CollapseBlanks(Strip(SplitFirst(n, ","))))
    ELSE Title(CollapseBlanks(Strip(n)))

\* C18: the cleaned name of every timesheet record with a name is its normal
\* form: 'SMITH, JOHN' gives 'John Smith', 'john  smith' gives 'John Smith'.
C18_NameNormalized ==
    pc # "start" =>
        \A i \in DOMAIN timesheet_df :
            LET r == timesheet_df[i] IN
            /\ ~isna(r.Name) => r.Name_Cleaned = NormalizedName(r.Name)
            /\ r.Name = <<"S", "M", "I", "T", "H", ",", " ", "J", "O", "H", "N">> =>
                   r.Name_Cleaned = <<"J", "o", "h", "n", " ", "S", "m", "i", "t", "h">>
            /\ r.Name = <<"j", "o", "h", "n", " ", " ", "s", "m", "i", "t", "h">> =>
                   r.Name_Cleaned = <<"J", "o", "h", "n", " ", "S", "m", "i", "t", "h">>

\* The records of a table with every name replaced by one value.
Renamed(df, name) == [i \in DOMAIN df |-> [df[i] EXCEPT !.Name_Cleaned = name]]

\* What a comparison table says of the records combined and of their hours.
HoursView(comparison) ==
    [i \in DOMAIN comparison |->
        [ Employee_ID         |-> comparison[i].Employee_ID,
          TotalHours          |-> comparison[i].TotalHours,
          Total_Payroll_Hours |-> comparison[i].Total_Payroll_Hours,
          Hours               |-> comparison[i].Hours,
          Total_Difference    |-> comparison[i].Total_Difference,
          Mismatch            |-> comparison[i].Mismatch,
          In_Timesheet        |-> comparison[i].In_Timesheet,
          In_Payroll          |-> comparison[i].In_Payroll,
          In_Both             |-> comparison[i].In_Both ]]

\* C19: the comparison combines records by employee id alone. Every record
\* of either source, whatever its name, is in the one row of its id, whose
\* totals are those of all records with that id; records with different ids
\* are in different rows even when their names are equal; and the rows, ids
\* and hours are the same when every name is blanked or every name is made
\* the same.
C19_JoinByIdOnly ==
    Compared =>
        /\ \A id \in TimesheetIds \cup PayrollIds :
               \E i \in DOMAIN comparison_df :
                   /\ comparison_df[i].Employee_ID = id
                   /\ comparison_df[i].TotalHours = TimesheetHoursOf(id)
                   /\ comparison_df[i].Total_Payroll_Hours = PayrollHoursOf(id)
                   /\ \A j \in DOMAIN comparison_df :
                          comparison_df[j].Employee_ID = id => j = i
        /\ \A name \in {NaN, UnknownEmployee} :
               HoursView(compare_hours_detailed(Renamed(timesheet_df, name),
                                                Renamed(payroll_df, name),
                                                hour_categories, tolerance))
                   = HoursView(comparison_df)

\* Employee 101 under two different cleaned names, and employee 505 under the
\* same cleaned name as one record of 101: two comparison rows.
C19_Witness ==
    /\ Compared
    /\ \E i, j, k \in DOMAIN timesheet_df :
          /\ timesheet_df[i].Employee_ID = timesheet_df[j].Employee_ID
          /\ timesheet_df[i].Name_Cleaned # timesheet_df[j].Name_Cleaned
          /\ timesheet_df[k].Employee_ID # timesheet_df[j].Employee_ID
          /\ timesheet_df[k].Name_Cleaned = timesheet_df[j].Name_Cleaned
    /\ Len(comparison_df) = 2

\* The first value of a column of cells that is not null, NaN when there is none.
FirstValue(cells) ==
    IF \E i \in DOMAIN cells : ~isna(cells[i])
    THEN cells[CHOOSE i \in DOMAIN cells :
                   ~isna(cells[i]) /\ \A j \in 1..(i - 1) : isna(cells[j])]
    ELSE NaN

\* The cleaned name of the first timesheet record of an employee that has a
\* name, NaN when no timesheet record of the employee has one.
TimesheetNameOf(id) ==
    LET g == SelectSeq(timesheet_df, LAMBDA r : r.Employee_ID = id /\ ~isna(r.Name))
    IN  IF g = <<>> THEN NaN ELSE g[1].Name_Cleaned

PayrollNameOf(id) ==
    LET g == SelectSeq(payroll_df, LAMBDA r : r.Employee_ID = id)
    IN  FirstValue([i \in DOMAIN g |-> g[i].Name_Cleaned])

TimesheetDepartmentOf(id) ==
    LET g == SelectSeq(timesheet_df, LAMBDA r : r.Employee_ID = id)
    IN  FirstValue([i \in DOMAIN g |-> g[i].DepartmentName])

PayrollDepartmentOf(id) ==
    LET g == SelectSeq(payroll_df, LAMBDA r : r.Employee_ID = id)
    IN  FirstValue([i \in DOMAIN g |-> g[i].Depart])

\* C20: the display name of a comparison row is the timesheet name when the
\* employee has one, otherwise the payroll name, and 'Unknown Employee' when
\* neither source has a name; the department is the timesheet department when
\* the employee has one, otherwise the payroll department.
C20_DisplayPrecedence ==
    Compared =>
        \A i \in DOMAIN comparison_df :
            LET r == comparison_df[i]
                n == r.Employee_ID
            IN  /\ r.Employee_Name =
                       IF ~isna(TimesheetNameOf(n)) THEN TimesheetNameOf(n)
                       ELSE IF ~isna(PayrollNameOf(n)) THEN PayrollNameOf(n)
                       ELSE UnknownEmployee
                /\ r.Department =
                       IF ~isna(TimesheetDepartmentOf(n)) THEN TimesheetDepartmentOf(n)
                       ELSE PayrollDepartmentOf(n)

\* A column the payroll loader passes over: gross pay, or a header outside the
\* category vocabulary that is not employee information.
IgnoredColumn(col) ==
    IsGrossColumn(col) \/ (col \notin InfoColumns /\ HourCategoryOf(col) = "")

\* The payroll rows with every cell of an ignored column blanked: two exports
\* that differ only in ignored columns have the same image.
WithoutIgnoredCells(rows) ==
    [i \in DOMAIN rows |->
        [c \in DOMAIN rows[i] |-> IF IgnoredColumn(c) THEN <<>> ELSE rows[i][c]]]

\* C21: the loaded payroll rows (identifier, hours per category, total), the
\* hour categories and the comparison table are those of the export with the
\* gross-pay columns and the columns outside the category vocabulary blanked,
\* whatever these columns hold, once the loader and once the comparison have
\* run; a sheet with such columns loads and compares without error.
C21_OnlyMappedColumnsCount ==
    /\ \E i \in DOMAIN xls_columns : IgnoredColumn(xls_columns[i]) /\ ~IsGrossColumn(xls_columns[i])
    /\ ~LoadPayrollRaises(xls_columns) /\ ~CompareRaises(csv_columns, xls_columns)
    /\ pc = "payroll_loaded" =>
          /\ payroll_df = load_and_clean_payroll_data_detailed(
                              xls_columns, WithoutIgnoredCells(xls_rows))
          /\ \A i \in DOMAIN hour_categories : ~IgnoredColumn(hour_categories[i].col)
    /\ pc = "compared" =>
          comparison_df = compare_hours_detailed(
                              timesheet_df,
                              load_and_clean_payroll_data_detailed(
                                  xls_columns, WithoutIgnoredCells(xls_rows)),
                              hour_categories, tolerance)

\* Two payroll rows of one employee with different gross pay and different
\* values in the unknown column have been compared.
C21_Witness ==
    /\ pc = "compared"
    /\ Len(xls_rows) = 2
    /\ xls_rows[1]["Sequence"] = xls_rows[2]["Sequence"]
    /\ xls_rows[1]["Basic Gross"] # xls_rows[2]["Basic Gross"]
    /\ xls_rows[1]["Basic Gross"] # <<>> /\ xls_rows[2]["Basic Gross"] # <<>>
    /\ xls_rows[1]["Bonus"] # <<>> /\ xls_rows[2]["Bonus"] = <<>>
    /\ Len(payroll_df) = 2
    /\ payroll_df[1].Total_Payroll_Hours > 0

\* The positions of the comparison report rows with a given Department.
RowsWithDepartment(dept) ==
    {i \in DOMAIN comparison_report : comparison_report[i].Department = dept}

RECURSIVE SumAt(_, _)
SumAt(f, S) == IF S = {} THEN 0
               ELSE LET x == CHOOSE y \in S : TRUE IN f[x] + SumAt(f, S \ {x})

\* C24: once the reports are built, every non-null department of the
\* comparison report has exactly one row in the department summary; its
\* counts and sums, per-category totals included, are taken over exactly the
\* report rows with that department, and its Total Difference is the sum of
\* their signed differences. The summary has no other row.
C24_DepartmentSummary ==
    Reported =>
        /\ \A i \in DOMAIN comparison_report :
              LET dept == comparison_report[i].Department
                  rows == RowsWithDepartment(dept)
                  hits == {k \in DOMAIN dept_summary : dept_summary[k].Department = dept}
              IN  ~isna(dept) =>
                     /\ Cardinality(hits) = 1
                     /\ \A k \in hits :
                           LET s == dept_summary[k]
                           IN  /\ s.EmployeeCount = Cardinality(rows)
                               /\ s.EmployeesInBothSystems =
                                      Cardinality({j \in rows :
                                          comparison_report[j].InBothSystems})
                               /\ s.EmployeesWithMismatches =
                                      Cardinality({j \in rows :
                                          comparison_report[j].MismatchFlag})
                               /\ s.TotalTimesheetHours =
                                      SumAt([j \in rows |->
                                          comparison_report[j].TimesheetHours], rows)
                               /\ s.TotalPayrollHours =
                                      SumAt([j \in rows |->
                                          comparison_report[j].PayrollHoursTotal], rows)
                               /\ s.TotalDifference =
                                      SumAt([j \in rows |->
                                          comparison_report[j].TotalDifference], rows)
                               /\ \A c \in DOMAIN hour_categories :
                                      s.CategoryTotals[c] =
                                          SumAt([j \in rows |->
                                              comparison_report[j].CategoryHours[c]], rows)
        /\ \A k \in DOMAIN dept_summary :
              /\ ~isna(dept_summary[k].Department)
              /\ RowsWithDepartment(dept_summary[k].Department) # {}

\* A department of two employees whose differences have opposite signs, next
\* to an employee without department.
C24_Witness ==
    /\ Reported
    /\ \E k \in DOMAIN dept_summary :
          /\ dept_summary[k].EmployeeCount = 2
          /\ \E i, j \in RowsWithDepartment(dept_summary[k].Department) :
                /\ comparison_report[i].TotalDifference < 0
                /\ comparison_report[j].TotalDifference > 0
    /\ \E i \in DOMAIN comparison_report : isna(comparison_report[i].Department)

\* C25: the anomalies are exactly the rows of the comparison report, in its
\* order, whose timesheet total and payroll total are both greater than 0 and
\* whose absolute difference exceeds the tolerance; these are the rows with
\* Mismatch Flag and In Both Systems. No row of an employee without hours in
\* one of the systems is among them.
C25_AnomaliesInBothSystems ==
    Reported =>
        /\ anomalies = SelectSeq(comparison_report, LAMBDA r :
                           /\ r.TimesheetHours > 0
                           /\ r.PayrollHoursTotal > 0
                           /\ Abs(r.TotalDifference) > tolerance)
        /\ anomalies = SelectSeq(comparison_report, LAMBDA r :
                           r.MismatchFlag /\ r.InBothSystems)
        /\ \A i \in DOMAIN anomalies :
              anomalies[i].HasTimesheetData /\ anomalies[i].HasPayrollData

\* One anomaly, next to a mismatching employee who is in the timesheet only.
C25_Witness ==
    /\ Reported
    /\ Len(anomalies) = 1
    /\ \E i \in DOMAIN comparison_report :
          /\ comparison_report[i].MismatchFlag
          /\ ~comparison_report[i].HasPayrollData
          /\ Abs(comparison_report[i].TotalDifference) > Abs(anomalies[1].TotalDifference)

\* C27: once the reports are built, employees_in_both_systems,
\* employees_timesheet_only and employees_payroll_only count three pairwise
\* disjoint sets of report rows; their sum is total_employees less the number
\* of rows whose timesheet total and payroll total are both at most 0, so it
\* never exceeds total_employees and reaches it exactly when there is no such
\* row.
C27_PresenceCountsPartition ==
    Reported =>
        LET rows     == DOMAIN comparison_report
            both     == {i \in rows : comparison_report[i].InBothSystems}
            ts_only  == {i \in rows : /\ comparison_report[i].HasTimesheetData
                                      /\ ~comparison_report[i].HasPayrollData}
            pay_only == {i \in rows : /\ comparison_report[i].HasPayrollData
                                      /\ ~comparison_report[i].HasTimesheetData}
            neither  == {i \in rows : /\ comparison_report[i].TimesheetHours <= 0
                                      /\ comparison_report[i].PayrollHoursTotal <= 0}
            counted  == stats.employees_in_both_systems + stats.employees_timesheet_only
                            + stats.employees_payroll_only
        IN  /\ stats.employees_in_both_systems = Cardinality(both)
            /\ stats.employees_timesheet_only = Cardinality(ts_only)
            /\ stats.employees_payroll_only = Cardinality(pay_only)
            /\ both \cap ts_only = {} /\ both \cap pay_only = {} /\ ts_only \cap pay_only = {}
            /\ stats.total_employees = Cardinality(rows)
            /\ counted = stats.total_employees - Cardinality(neither)
            /\ counted <= stats.total_employees
            /\ counted = stats.total_employees <=> neither = {}

\* Two employees: one in both systems and one whose two totals are 0, who is
\* in none of the three counts.
C27_Witness ==
    /\ Reported
    /\ stats.total_employees = 2
    /\ stats.employees_in_both_systems = 1
    /\ stats.employees_timesheet_only = 0
    /\ stats.employees_payroll_only = 0

Departmentless == {i \in DOMAIN comparison_report : isna(comparison_report[i].Department)}

WithDepartment == DOMAIN comparison_report \ Departmentless

\* The sum of one column over the department summary, over the report rows
\* with a department, and over the report rows without one.
SummaryEmployeeCount ==
    SumSeq([k \in DOMAIN dept_summary |-> dept_summary[k].EmployeeCount])

SummaryTimesheetHours ==
    SumSeq([k \in DOMAIN dept_summary |-> dept_summary[k].TotalTimesheetHours])

SummaryPayrollHours ==
    SumSeq([k \in DOMAIN dept_summary |-> dept_summary[k].TotalPayrollHours])

TimesheetHoursAt(S) == SumAt([i \in S |-> comparison_report[i].TimesheetHours], S)

PayrollHoursAt(S) == SumAt([i \in S |-> comparison_report[i].PayrollHoursTotal], S)

\* C28 as stated: the summed Employee Count and the summed hours columns of
\* the department summary are those of the report rows with a department, and
\* each of them equals the table-wide statistic only when every row has a
\* department.
C28_TotalsAgreeOnlyWithAllDepartments ==
    Reported =>
        /\ SummaryEmployeeCount = Cardinality(WithDepartment)
        /\ SummaryTimesheetHours = TimesheetHoursAt(WithDepartment)
        /\ SummaryPayrollHours = PayrollHoursAt(WithDepartment)
        /\ SummaryEmployeeCount = stats.total_employees => Departmentless = {}
        /\ SummaryTimesheetHours = stats.total_timesheet_hours => Departmentless = {}
        /\ SummaryPayrollHours = stats.total_payroll_hours => Departmentless = {}

\* C28: the report rows without department are counted in no row of the
\* department summary. The summed Employee Count and the summed hours columns
\* of the summary are those of the report rows with a department; the summed
\* Employee Count equals total_employees exactly when every row has a
\* department, and each summed hours column falls short of the table-wide
\* total by the hours of the rows without department.
C28_DepartmentlessRowsLeftOut ==
    Reported =>
        /\ \A k \in DOMAIN dept_summary : ~isna(dept_summary[k].Department)
        /\ SummaryEmployeeCount = Cardinality(WithDepartment)
        /\ SummaryTimesheetHours = TimesheetHoursAt(WithDepartment)
        /\ SummaryPayrollHours = PayrollHoursAt(WithDepartment)
        /\ SummaryEmployeeCount = stats.total_employees <=> Departmentless = {}
        /\ SummaryTimesheetHours =
               stats.total_timesheet_hours - TimesheetHoursAt(Departmentless)
        /\ SummaryPayrollHours =
               stats.total_payroll_hours - PayrollHoursAt(Departmentless)

\* An employee without department who has timesheet hours, next to a
\* department with an employee: the summary holds fewer employees and fewer
\* timesheet hours than the statistics.
C28_Witness ==
    /\ Reported
    /\ dept_summary # <<>>
    /\ \E i \in Departmentless : comparison_report[i].TimesheetHours > 0
    /\ SummaryEmployeeCount < stats.total_employees
    /\ SummaryTimesheetHours < stats.total_timesheet_hours

\* C26: an error raised inside categorize_employees_by_activity does not stop
\* main. The categorization is then the empty table with its eight columns,
\* the category summary is empty, the four category counts are 0 and
\* total_employees is still the number of comparison rows; main goes on to
\* save and return. When main fails on such a run, it is on the timesheet
\* period, computed before the categorization is called.
C26_CategorizationErrorSwallowed ==
    /\ (Categorized /\ CategorizeRaises(comparison_report, timesheet_df)) =>
          /\ employee_categories = <<>>
          /\ Len(CategorizationColumns(comparison_report, timesheet_df)) = 8
          /\ category_summary = <<>>
          /\ enhanced_stats.active_employees = 0
          /\ enhanced_stats.inactive_employees = 0
          /\ enhanced_stats.new_employees = 0
          /\ enhanced_stats.terminated_employees = 0
          /\ enhanced_stats.total_employees = stats.total_employees
          /\ enhanced_stats.total_employees = Len(comparison_report)
          /\ pc = "returned" => output_file # ""
    /\ (pc = "failed" /\ CategorizeRaises(comparison_report, timesheet_df)) =>
          <<>> \in TimesheetPeriodOutcomes(csv_columns, timesheet_df)

\* main has returned after a categorization that raised: a timesheet-only
\* employee without any YearWeek, next to a payroll-only employee who would
\* have counted as terminated.
C26_Witness ==
    /\ pc = "returned"
    /\ CategorizeRaises(comparison_report, timesheet_df)
    /\ \A i \in DOMAIN timesheet_df : isna(timesheet_df[i].YearWeek)
    /\ stats.total_employees = 2
    /\ stats.employees_payroll_only = 1
    /\ workbook # <<>>

\* A column named in C22 is missing from its file.
RequiredColumnMissing ==
    \/ ~({"Staff Number", "Total Hours", "YearWeek"} \subseteq csv_columns)
    \/ ~({"Sequence", "Forename", "Surname", "Depart"} \subseteq Range(xls_columns))

\* C22: when the timesheet lacks 'Staff Number', 'Total Hours' or 'YearWeek',
\* or the payroll export lacks 'Sequence', 'Forename', 'Surname' or 'Depart',
\* the statement of main that first uses the missing column ends main in its
\* except clause, which returns None for every result; no step of main
\* reaches or runs save_detailed_results, and no results file is written.
C22_MissingColumnHalts ==
    [][RequiredColumnMissing =>
          /\ pc' \notin {"categorized", "returned"}
          /\ output_file' = "" /\ workbook' = <<>>
          /\ (pc = "start" /\ ~({"Staff Number", "Total Hours"} \subseteq csv_columns))
                => pc' = "failed"
          /\ (pc = "timesheet_loaded"
                 /\ ~({"Sequence", "Forename", "Surname"} \subseteq Range(xls_columns)))
                => pc' = "failed"
          /\ (pc = "payroll_loaded" /\ "Depart" \notin Range(xls_columns))
                => pc' = "failed"
          /\ pc = "reported" => pc' = "failed"]_vars

\* main has failed in compare_hours_detailed on a payroll export without
\* 'Depart', after both files were loaded with rows.
C22_Witness ==
    /\ pc = "failed"
    /\ "Depart" \notin Range(xls_columns)
    /\ csv_columns = CsvColumns
    /\ timesheet_df # <<>>
    /\ payroll_df # <<>>
    /\ output_file = ""

\* C23 as stated: with no hour-category column in the payroll header, main
\* fails in the payroll loader, so that no later stage is reached.
C23_NoHourColumnsIsFatal ==
    MapHourCategories(xls_columns) = <<>> =>
        pc \notin {"payroll_loaded", "compared", "reported", "categorized", "returned"}

\* A period key of the form 'YYYY-Wnn'.
IsYearWeekKey(t) ==
    /\ Len(t) = 8
    /\ AllDigits(SubSeq(t, 1, 4))
    /\ t[5] = "-" /\ t[6] = "W"
    /\ AllDigits(SubSeq(t, 7, 8))

\* C29: whatever the name of the payroll workbook, once
\* generate_comparison_reports has run on a timesheet whose YearWeek keys have
\* the form 'YYYY-Wnn', period_mismatch is True and period_match is False: the
\* payroll period differs from the timesheet period with 'W' replaced by
\* 'Week '.
C29_PeriodsNeverMatch ==
    (Categorized /\ \A i \in DOMAIN timesheet_df : IsYearWeekKey(timesheet_df[i].YearWeek)) =>
        /\ enhanced_stats.payroll_period = extract_date_range_from_filename(excel_file)
        /\ enhanced_stats.payroll_period # ReplaceW(enhanced_stats.timesheet_period)
        /\ enhanced_stats.period_mismatch = TRUE
        /\ comparison_metrics.data_alignment.period_match = FALSE

\* The workbook is named exactly as the timesheet period reads after the
\* replacement, '2025-Week 01 to 2025-Week 01'.
C29_Witness ==
    /\ Categorized
    /\ timesheet_df # <<>>
    /\ \A i \in DOMAIN timesheet_df : IsYearWeekKey(timesheet_df[i].YearWeek)
    /\ excel_file = ReplaceW(enhanced_stats.timesheet_period)

\* The master rows that carry a period key, and their chronological order by
\* the Year and Week columns.
KeyedRows == {i \in DOMAIN csv_rows : csv_rows[i].YearWeek # <<>>}

Earlier(i, j) ==
    \/ csv_rows[i].Year[1] < csv_rows[j].Year[1]
    \/ /\ csv_rows[i].Year[1] = csv_rows[j].Year[1]
       /\ csv_rows[i].Week[1] < csv_rows[j].Week[1]

\* C30: every YearWeek of the master timesheet has the form 'YYYY-Wnn' and
\* spells the Year and Week of its row; one key is smaller than another as a
\* string exactly when its (Year, Week) is earlier. So the First_Week of an
\* employee is the key of a chronologically first row, and the test
\* first_week >= '2025-W01' holds exactly when that row is in week 1 of 2025 or
\* later; a timesheet-only employee is a New Employee exactly then.
C30_KeysOrderChronologically ==
    /\ \A i \in KeyedRows :
          /\ IsYearWeekKey(csv_rows[i].YearWeek)
          /\ NatOf(SubSeq(csv_rows[i].YearWeek, 1, 4)) = csv_rows[i].Year[1]
          /\ NatOf(SubSeq(csv_rows[i].YearWeek, 7, 8)) = csv_rows[i].Week[1]
    /\ \A i, j \in KeyedRows :
          TextLess(csv_rows[i].YearWeek, csv_rows[j].YearWeek) <=> Earlier(i, j)
    /\ (pc \notin {"start", "failed"} /\ KeyedRows # {}) =>
          \A id \in TimesheetIds :
              LET first == TimesheetActivity(timesheet_df, id)[1].First_Week
              IN  \E i \in KeyedRows :
                     /\ csv_rows[i].YearWeek = first
                     /\ \A j \in KeyedRows : ~Earlier(j, i)
                     /\ StartedThisYear(first) <=>
                            \/ csv_rows[i].Year[1] > 2025
                            \/ csv_rows[i].Year[1] = 2025 /\ csv_rows[i].Week[1] >= 1
                     /\ Categorized =>
                            \A k \in DOMAIN employee_categories :
                                employee_categories[k].Category = "New Employee"
                                    <=> StartedThisYear(first)

\* Two workbooks named for weeks 10 and 9 of 2025, in that order: the master
\* file holds week '2025-W09' first, and the employee is a New Employee.
C30_Witness ==
    /\ Categorized
    /\ Len(csv_rows) = 2
    /\ csv_rows[1].YearWeek = <<"2", "0", "2", "5", "-", "W", "0", "9">>
    /\ csv_rows[2].YearWeek = <<"2", "0", "2", "5", "-", "W", "1", "0">>
    /\ Len(employee_categories) = 1
    /\ employee_categories[1].Category = "New Employee"

====
